---- MODULE Spec2Model ----
(***************************************************************************)
(* Model of the retrieval engine of frover: the key-value RecordStore with *)
(* its two secondary indexes (StorageService), the TTL ResultCache         *)
(* (CacheService), the chunker (EmbeddingService.chunkText), the cosine    *)
(* scorer and the RetrievalOrchestrator (RAGBrainAgent) with its CRUD      *)
(* operations and its three-strategy read.                                 *)
(*                                                                         *)
(* Conventions.  A text is a sequence of one-character strings.  A JS      *)
(* value that may be undefined is a sequence of length 0 or 1 (<<>> is     *)
(* undefined, <<v>> is v).  Scores are in hundredths (1.0 is 100).  The    *)
(* clock is Date.now() in milliseconds.  Bookkeeping timestamps of the     *)
(* records (createdAt, updatedAt, indexedAt, storedAt, size, storageKey)   *)
(* are not tracked: no operation modelled here reads them.  Neither is the *)
(* metadata copy a search result carries under options.includeMetadata.    *)
(* Outside SpecExpiry no record carries an expiresAt: every stored entity  *)
(* is unexpired there.  The                                                *)
(* key-value store answers every call; the embedding provider and the      *)
(* remote index may fail where an action says so.                          *)
(* An operator that needs an intermediate result more than once receives   *)
(* it as a parameter; this is why a function of the source is often split  *)
(* over several operators.                                                 *)
(***************************************************************************)
EXTENDS Integers, Sequences, FiniteSets, TLC

VARIABLES
  store,      \* RAG_CACHE keys "brain:<id>": id -> entity
  typeIndex,  \* RAG_CACHE keys "index:type:<type>": type -> list of ids
  catIndex,   \* RAG_CACHE keys "index:category:<c>": category -> list of ids
  cache,      \* RAG_CACHE keys "cache:<key>": key -> [value, expires]
  remote,     \* the remote vector index: vector id -> [values, metadata]
  pinecone,   \* whether a remote index is configured (fixed at construction)
  now,        \* Date.now()
  last,       \* the last call made on the agent and what it returned
  inflight    \* the StorageService call each concurrent request is in

vars ==
  <<store, typeIndex, catIndex, cache, remote, pinecone, now, last, inflight>>

----------------------------------------------------------------------------
(* Bounds of the model *)

MaxVersion == 2
MaxTicks == 2
MaxCached == 1
MaxDepth == 3
MaxItems == 2
MaxTextLen == 5
MaxChunkLength == 3
MaxVectors == 3
TickMs == 200000

(* Program constants *)

DirectScore == 100
TypeFilterScore == 90
RemoteThreshold == 30
KvThreshold == 25
DefaultLimit == 10
ListDefaultLimit == 100
SemanticTtlSeconds == 300
ChunkMaxLength == 400
EmbedMaxChars == 512
DefaultCacheTtlSeconds == 3600

----------------------------------------------------------------------------
(* Generic helpers *)

EmptyMap == [k \in {} |-> 0]

\* Faulty variant of Put: the value replaces the whole map, as if every
\* entry were written under one key.
Put_OneSharedKey(f, k, v) == (k :> v)

Put(f, k, v) == (k :> v) @@ f

Remove(f, k) == [x \in DOMAIN f \ {k} |-> f[x]]

Includes(seq, x) == \E i \in 1..Len(seq) : seq[i] = x

\* Array.prototype.slice(from, to) with 0-based bounds
Slice(seq, from, to) ==
  LET hi == IF to < Len(seq) THEN to ELSE Len(seq)
  IN  IF from >= hi THEN <<>> ELSE SubSeq(seq, from + 1, hi)

RECURSIVE ISqrt(_)
ISqrt(n) == IF n < 4 THEN (IF n = 0 THEN 0 ELSE 1)
            ELSE LET r == 2 * ISqrt(n \div 4)
                 IN  IF (r + 1) * (r + 1) <= n THEN r + 1 ELSE r

\* A JS string used as a condition: undefined and "" are falsy
Truthy(opt) == opt # <<>> /\ opt[1] # ""

----------------------------------------------------------------------------
(* Texts, embeddings, scoring *)

EmptyText == <<>>
ContentA == <<"x">>
ContentB == <<"y">>
ContentC == <<"z">>
Query1 == <<"q">>
GeneralSearch == <<"g","e","n","e","r","a","l"," ","s","e","a","r","c","h">>
\* a query holding one UTF-16 code unit above 0xFF
QueryWide == <<"U+65E5">>
WideChars == {"U+65E5"}

\* The inference service behind env.AI.run: a fixed text -> vector map.
\* All vectors have the same dimension and norm 5.
AiRun(text) ==
  CASE text = ContentA -> <<3, 4>>
    [] text = ContentB -> <<4, 3>>
    [] text = Query1 -> <<3, 4>>
    [] text = GeneralSearch -> <<5, 0>>
    [] OTHER -> <<0, 5>>

GenerateEmbedding(text) == AiRun(Slice(text, 0, EmbedMaxChars))

RECURSIVE Dot(_, _, _)
Dot(a, b, i) == IF i > Len(a) THEN 0 ELSE a[i] * b[i] + Dot(a, b, i + 1)

CosineSimilarity(a, b) ==
  IF Len(a) # Len(b) \/ Len(a) = 0 THEN 0
  ELSE LET denom == ISqrt(Dot(a, a, 1)) * ISqrt(Dot(b, b, 1))
       IN  IF denom = 0 THEN 0 ELSE (Dot(a, b, 1) * 100) \div denom

----------------------------------------------------------------------------
(* EmbeddingService.chunkText *)

Terminals == {".", "!", "?"}
Whitespace == {" "}

\* text.split(/[.!?]+/): the maximal runs of non-terminal characters; an
\* empty first or last piece appears when the text starts or ends with a
\* terminal, and no empty piece appears between two adjacent terminals.
\* the first position from i on that holds a terminal (Len + 1 if none)
NextTerminal(text, i) ==
  IF \E j \in i..Len(text) : text[j] \in Terminals
  THEN CHOOSE j \in i..Len(text) :
         /\ text[j] \in Terminals
         /\ \A k \in i..(j - 1) : text[k] \notin Terminals
  ELSE Len(text) + 1

\* the first position from i on that holds no terminal (Len + 1 if none)
NextNonTerminal(text, i) ==
  IF \E j \in i..Len(text) : text[j] \notin Terminals
  THEN CHOOSE j \in i..Len(text) :
         /\ text[j] \notin Terminals
         /\ \A k \in i..(j - 1) : text[k] \in Terminals
  ELSE Len(text) + 1

RECURSIVE SplitFrom(_, _)

\* the piece from i up to the terminal at j, then the pieces after the
\* run of terminals
SplitAt(text, i, j) ==
  IF j > Len(text) THEN <<SubSeq(text, i, Len(text))>>
  ELSE <<SubSeq(text, i, j - 1)>>
         \o SplitFrom(text, NextNonTerminal(text, j))

SplitFrom(text, i) == SplitAt(text, i, NextTerminal(text, i))

SplitSentences(text) == SplitFrom(text, 1)

RECURSIVE TrimStart(_)
TrimStart(s) == IF s # <<>> /\ s[1] \in Whitespace THEN TrimStart(Tail(s)) ELSE s

RECURSIVE TrimEnd(_)
TrimEnd(s) ==
  IF s # <<>> /\ s[Len(s)] \in Whitespace THEN TrimEnd(SubSeq(s, 1, Len(s) - 1))
  ELSE s

Trim(s) == TrimEnd(TrimStart(s))

RECURSIVE Pack(_, _, _, _)
Pack(sentences, i, currentChunk, maxLength) ==
  IF i > Len(sentences)
  THEN IF currentChunk # <<>> THEN <<currentChunk \o <<".">>>> ELSE <<>>
  ELSE LET trimmed == Trim(sentences[i])
       IN  IF Len(currentChunk) + Len(trimmed) + 1 <= maxLength
           THEN Pack(sentences, i + 1,
                     currentChunk
                       \o (IF currentChunk # <<>> THEN <<".", " ">> ELSE <<>>)
                       \o trimmed,
                     maxLength)
           ELSE (IF currentChunk # <<>> THEN <<currentChunk \o <<".">>>> ELSE <<>>)
                \o Pack(sentences, i + 1, trimmed, maxLength)

ChunkText(text, maxLength) ==
  IF Len(text) <= maxLength THEN <<text>>
  ELSE Pack(SelectSeq(SplitSentences(text), LAMBDA s : Len(Trim(s)) > 0),
            1, <<>>, maxLength)

----------------------------------------------------------------------------
(* StorageService: the record store and its secondary indexes.  A storage  *)
(* state S is a record with the fields store, typeIndex and catIndex.      *)

GetIndex(idx, k) == IF k \in DOMAIN idx THEN idx[k] ELSE <<>>

\* Faulty variant of IndexAfter: an added id is pushed without looking
\* whether the list holds it.
IndexAfter_PushesUnchecked(ids, id, operation) ==
  IF operation = "add" THEN Append(ids, id)
  ELSE IF operation = "remove" THEN SelectSeq(ids, LAMBDA e : e # id)
  ELSE ids

\* Faulty variant of IndexAfter: an add leaves the list as it was read.
IndexAfter_AddsNothing(ids, id, operation) ==
  IF operation = "remove" THEN SelectSeq(ids, LAMBDA e : e # id) ELSE ids

IndexAfter(ids, id, operation) ==
  IF operation = "add" /\ ~Includes(ids, id) THEN Append(ids, id)
  ELSE IF operation = "remove" THEN SelectSeq(ids, LAMBDA e : e # id)
  ELSE ids

UpdateTypeIndex(idx, type, id, operation) ==
  Put(idx, type, IndexAfter(GetIndex(idx, type), id, operation))

UpdateCategoryIndex(idx, category, id, operation) ==
  Put(idx, category, IndexAfter(GetIndex(idx, category), id, operation))

StoreBrainData(S, data) ==
  [S EXCEPT
     !.store = Put(@, data.id, data),
     !.typeIndex = UpdateTypeIndex(@, data.type, data.id, "add"),
     !.catIndex = IF Truthy(data.metadata.category)
                  THEN UpdateCategoryIndex(@, data.metadata.category[1],
                                           data.id, "add")
                  ELSE @]

\* <<entity>> or <<>> (null)
RetrieveBrainData(S, id) ==
  IF id \in DOMAIN S.store THEN <<S.store[id]>> ELSE <<>>

DeleteFound(S, id, existing) ==
  [S EXCEPT
     !.store = Remove(@, id),
     !.typeIndex = IF existing # <<>>
                   THEN UpdateTypeIndex(@, existing[1].type, id, "remove")
                   ELSE @,
     !.catIndex = IF existing # <<>> /\ Truthy(existing[1].metadata.category)
                  THEN UpdateCategoryIndex(@, existing[1].metadata.category[1],
                                           id, "remove")
                  ELSE @]

DeleteBrainData(S, id) == DeleteFound(S, id, RetrieveBrainData(S, id))

\* Faulty variant of FetchAll: the loop ends at the first id whose record
\* is absent.
RECURSIVE FetchAll_StopsAtMissing(_, _, _)
FetchAll_StopsAtMissing(S, ids, i) ==
  IF i > Len(ids) \/ RetrieveBrainData(S, ids[i]) = <<>> THEN <<>>
  ELSE RetrieveBrainData(S, ids[i]) \o FetchAll_StopsAtMissing(S, ids, i + 1)

RECURSIVE FetchAll(_, _, _)
FetchAll(S, ids, i) ==
  IF i > Len(ids) THEN <<>>
  ELSE RetrieveBrainData(S, ids[i]) \o FetchAll(S, ids, i + 1)

ListByType(S, type, limit, offset) ==
  FetchAll(S, Slice(GetIndex(S.typeIndex, type), offset, offset + limit), 1)

ListByCategory(S, category, limit) ==
  FetchAll(S, Slice(GetIndex(S.catIndex, category), 0, limit), 1)

\* RAG_CACHE.list({prefix: "brain:"}) returns the keys in lexicographic order
KeyOrder == <<"a", "b", "c", "d", "e", "f", "g", "h", "i", "j", "k", "l">>

GetAllBrainEntityIds(S) == SelectSeq(KeyOrder, LAMBDA k : k \in DOMAIN S.store)

GetEntities(S, options) ==
  IF options.ids # <<>> /\ Len(options.ids[1]) > 0
  THEN FetchAll(S, options.ids[1], 1)
  ELSE IF Truthy(options.category)
  THEN ListByCategory(S, options.category[1], ListDefaultLimit)
  ELSE IF Truthy(options.type)
  THEN ListByType(S, options.type[1], ListDefaultLimit, 0)
  ELSE FetchAll(S, Slice(GetAllBrainEntityIds(S), 0, 100), 1)

----------------------------------------------------------------------------
(* CacheService.  A cache key is a JS string; it is modelled by its parts: *)
(* "semantic:<btoa(query)>:<JSON.stringify(options)>" is                    *)
(* [ns |-> "semantic", name |-> "", text |-> query, opts |-> options], and *)
(* "type:<t>" is [ns |-> "type", name |-> t, ...].                         *)

NoMeta == [category |-> <<>>, version |-> <<>>, previousVersion |-> <<>>,
           indexed |-> <<>>, embedding |-> <<>>, expiresAt |-> <<>>]

NoOptions == [type |-> <<>>, category |-> <<>>, ids |-> <<>>, limit |-> <<>>,
              threshold |-> <<>>]

\* Faulty variant of CacheGet: the expires timestamp is not looked at.
CacheGet_NoExpiryCheck(C, key, t) ==
  IF key \notin DOMAIN C THEN [cache |-> C, value |-> <<>>]
  ELSE [cache |-> C, value |-> <<C[key].value>>]

CacheGet(C, key, t) ==
  IF key \notin DOMAIN C THEN [cache |-> C, value |-> <<>>]
  ELSE IF C[key].expires # 0 /\ t > C[key].expires
       THEN [cache |-> Remove(C, key), value |-> <<>>]
       ELSE [cache |-> C, value |-> <<C[key].value>>]

CacheSet(C, key, value, ttlSeconds, t) ==
  Put(C, key, [value |-> value, expires |-> t + ttlSeconds * 1000])

CacheDelete(C, key) == Remove(C, key)

----------------------------------------------------------------------------
(* RAGBrainAgent.  A world W is [store, typeIndex, catIndex, cache,        *)
(* remote, pinecone]; the storage operators act on its first three fields. *)
(* budget is the number of embedding calls the provider answers during the *)
(* operation before it starts failing; upOk, delOk and queryOk tell        *)
(* whether the remote index answers the upsert, the delete-by-filter and   *)
(* the query.  An operation returns [W, ok, embeds, ...]: the world it     *)
(* leaves, its success flag and the number of embedding calls it made.     *)

\* {...a, ...b} on metadata objects
Spread(a, b) == [f \in DOMAIN a |-> IF b[f] # <<>> THEN b[f] ELSE a[f]]

\* existing.metadata?.version || 1
VersionOr1(entity) ==
  IF entity.metadata.version = <<>> \/ entity.metadata.version[1] = 0 THEN 1
  ELSE entity.metadata.version[1]

TypeCacheKey(type) ==
  [ns |-> "type", name |-> type, text |-> <<>>, opts |-> NoOptions]

CategoryCacheKey(category) ==
  [ns |-> "category", name |-> category, text |-> <<>>, opts |-> NoOptions]

ClearRelatedCaches(C, type, category) ==
  [k \in (DOMAIN C \ (IF type # "" THEN {TypeCacheKey(type)} ELSE {}))
         \ (IF Truthy(category) THEN {CategoryCacheKey(category[1])} ELSE {})
     |-> C[k]]

\* PineconeService.upsert: vectors are written under their ids
RECURSIVE Upsert(_, _, _)
Upsert(R, vectors, i) ==
  IF i > Len(vectors) THEN R
  ELSE Upsert(Put(R, vectors[i].id, vectors[i]), vectors, i + 1)

\* PineconeService.deleteByFilter({originalId: id})
DeleteByFilter(R, id) ==
  [v \in {x \in DOMAIN R : R[x].metadata.originalId # id} |-> R[v]]

DeleteFromIndex(W, id, delOk) ==
  IF W.pinecone /\ delOk
  THEN [W EXCEPT !.remote = DeleteByFilter(@, id)]
  ELSE W

ChunkVectors(data, chunks) ==
  [i \in 1..Len(chunks) |->
     [id |-> <<data.id, "_chunk_", i - 1>>,
      values |-> GenerateEmbedding(chunks[i]),
      metadata |-> [originalId |-> data.id, content |-> chunks[i],
                    chunkIndex |-> i - 1, totalChunks |-> Len(chunks),
                    type |-> data.type,
                    category |-> data.metadata.category]]]

\* chunks[0] ?? content
FirstChunkOr(chunks, content) ==
  IF Len(chunks) > 0 THEN chunks[1] ELSE content

IndexedData(data, docChunks) ==
  [data EXCEPT !.metadata.embedding =
                 <<GenerateEmbedding(FirstChunkOr(docChunks, data.content))>>,
               !.metadata.indexed = <<TRUE>>]

\* ok = FALSE is the rethrown error
IndexChunks(W, data, docChunks, budget, upOk) ==
  IF budget < 1 THEN [W |-> W, ok |-> FALSE, embeds |-> 1]
  ELSE IF W.pinecone /\ budget < 1 + Len(docChunks)
  THEN [W |-> W, ok |-> FALSE, embeds |-> budget + 1]
  ELSE IF W.pinecone /\ ~upOk
  THEN [W |-> W, ok |-> FALSE, embeds |-> 1 + Len(docChunks)]
  ELSE [W |-> StoreBrainData(
                [W EXCEPT !.remote =
                   IF W.pinecone
                   THEN Upsert(@, ChunkVectors(data, docChunks), 1)
                   ELSE @],
                IndexedData(data, docChunks)),
        ok |-> TRUE,
        embeds |-> IF W.pinecone THEN 1 + Len(docChunks) ELSE 1]

IndexContent(W, data, budget, upOk) ==
  IndexChunks(W, data, ChunkText(data.content, ChunkMaxLength), budget, upOk)

EnrichCreated(data) ==
  [data EXCEPT !.metadata = [Spread(NoMeta, data.metadata) EXCEPT
                               !.version = <<1>>, !.indexed = <<FALSE>>]]

\* Faulty variant of CreateIndexed: an error of indexContent is swallowed.
CreateIndexed_SwallowsError(ix, data, enrichedData) ==
  [W |-> [ix.W EXCEPT !.cache =
            ClearRelatedCaches(@, data.type, data.metadata.category)],
   ok |-> TRUE, data |-> <<enrichedData>>, embeds |-> ix.embeds]

CreateIndexed(ix, data, enrichedData) ==
  IF ~ix.ok
  THEN [W |-> ix.W, ok |-> FALSE, data |-> <<>>, embeds |-> ix.embeds]
  ELSE [W |-> [ix.W EXCEPT !.cache =
                 ClearRelatedCaches(@, data.type, data.metadata.category)],
        ok |-> TRUE, data |-> <<enrichedData>>, embeds |-> ix.embeds]

\* Faulty variant of CreateStored: the entity is stored only by a
\* successful indexContent, not before it.
CreateStored_IndexesBeforeStoring(W, data, enrichedData, budget, upOk) ==
  CreateIndexed(IndexContent(W, enrichedData, budget, upOk), data,
                enrichedData)

CreateStored(W, data, enrichedData, budget, upOk) ==
  CreateIndexed(IndexContent(StoreBrainData(W, enrichedData), enrichedData,
                             budget, upOk),
                data, enrichedData)

\* Faulty variant of CreateOp: the type is not validated.
CreateOp_TypeNotValidated(W, data, budget, upOk) ==
  IF data.id = "" \/ data.content = <<>>
  THEN [W |-> W, ok |-> FALSE, data |-> <<>>, embeds |-> 0]
  ELSE CreateStored(W, data, EnrichCreated(data), budget, upOk)

CreateOp(W, data, budget, upOk) ==
  IF data.id = "" \/ data.content = <<>> \/ data.type = ""
  THEN [W |-> W, ok |-> FALSE, data |-> <<>>, embeds |-> 0]
  ELSE CreateStored(W, data, EnrichCreated(data), budget, upOk)

GetByIdOp(W, id) ==
  [W |-> W, ok |-> RetrieveBrainData(W, id) # <<>>,
   data |-> RetrieveBrainData(W, id), embeds |-> 0]

\* Faulty variant of MergeUpdate: the patch metadata is spread last, so a
\* version or previousVersion it carries wins over the computed ones.
MergeUpdate_PatchMetadataLast(existing, id, updates) ==
  [id |-> id,
   content |-> IF updates.content # <<>> THEN updates.content[1]
               ELSE existing.content,
   type |-> IF updates.type # <<>> THEN updates.type[1] ELSE existing.type,
   metadata |-> Spread([existing.metadata EXCEPT
                          !.version = <<VersionOr1(existing) + 1>>,
                          !.previousVersion = <<VersionOr1(existing)>>],
                       updates.metadata)]

\* Faulty variant of MergeUpdate: the id is not pinned after the spread, so
\* an id carried by the patch wins.
MergeUpdate_PatchIdWins(existing, id, updates) ==
  [id |-> IF updates.id # <<>> THEN updates.id[1] ELSE id,
   content |-> IF updates.content # <<>> THEN updates.content[1]
               ELSE existing.content,
   type |-> IF updates.type # <<>> THEN updates.type[1] ELSE existing.type,
   metadata |-> [Spread(existing.metadata, updates.metadata) EXCEPT
                   !.version = <<VersionOr1(existing) + 1>>,
                   !.previousVersion = <<VersionOr1(existing)>>]]

\* {...existing, ...updates, id, metadata: {...}}
MergeUpdate(existing, id, updates) ==
  [id |-> id,
   content |-> IF updates.content # <<>> THEN updates.content[1]
               ELSE existing.content,
   type |-> IF updates.type # <<>> THEN updates.type[1] ELSE existing.type,
   metadata |-> [Spread(existing.metadata, updates.metadata) EXCEPT
                   !.version = <<VersionOr1(existing) + 1>>,
                   !.previousVersion = <<VersionOr1(existing)>>]]

\* Faulty variant of ContentChanged: any content in the patch counts as a
\* change, also the content already stored.
ContentChanged_AnyContent(existing, updates) ==
  /\ updates.content # <<>>
  /\ updates.content[1] # <<>>

\* updates.content && updates.content !== existing.content
ContentChanged(existing, updates) ==
  /\ updates.content # <<>>
  /\ updates.content[1] # <<>>
  /\ updates.content[1] # existing.content

UpdateIndexed(ix, updatedData) ==
  IF ~ix.ok
  THEN [W |-> ix.W, ok |-> FALSE, data |-> <<>>, embeds |-> ix.embeds]
  ELSE [W |-> [ix.W EXCEPT !.cache =
                 ClearRelatedCaches(@, updatedData.type,
                                    updatedData.metadata.category)],
        ok |-> TRUE, data |-> <<updatedData>>, embeds |-> ix.embeds]

UpdateStored(w1, changed, id, updatedData, budget, delOk, upOk) ==
  UpdateIndexed(IF changed
                THEN IndexContent(DeleteFromIndex(w1, id, delOk), updatedData,
                                  budget, upOk)
                ELSE [W |-> w1, ok |-> TRUE, embeds |-> 0],
                updatedData)

UpdateFound(W, existing, id, updates, updatedData, budget, delOk, upOk) ==
  UpdateStored(StoreBrainData(W, updatedData),
               ContentChanged(existing, updates), id, updatedData,
               budget, delOk, upOk)

\* Faulty variant of UpdateOp: an unknown id is not rejected, the patch is
\* stored as a new record.
UpdateOp_StoresUnknownId(W, id, updates, budget, delOk, upOk) ==
  IF RetrieveBrainData(W, id) = <<>>
  THEN [W |-> StoreBrainData(W,
                [id |-> id,
                 content |-> IF updates.content # <<>>
                             THEN updates.content[1] ELSE <<>>,
                 type |-> IF updates.type # <<>> THEN updates.type[1]
                          ELSE "",
                 metadata |-> [updates.metadata EXCEPT !.version = <<1>>]]),
        ok |-> FALSE, data |-> <<>>, embeds |-> 0]
  ELSE UpdateFound(W, W.store[id], id, updates,
                   MergeUpdate(W.store[id], id, updates), budget, delOk, upOk)

UpdateOp(W, id, updates, budget, delOk, upOk) ==
  IF RetrieveBrainData(W, id) = <<>>
  THEN [W |-> W, ok |-> FALSE, data |-> <<>>, embeds |-> 0]
  ELSE UpdateFound(W, W.store[id], id, updates,
                   MergeUpdate(W.store[id], id, updates), budget, delOk, upOk)

DeleteCleared(w1, existing) ==
  IF existing = <<>> THEN w1
  ELSE [w1 EXCEPT !.cache =
          ClearRelatedCaches(@, existing[1].type,
                             existing[1].metadata.category)]

DeleteOp(W, id, delOk) ==
  [W |-> DeleteCleared(DeleteFromIndex(DeleteBrainData(W, id), id, delOk),
                       RetrieveBrainData(W, id)),
   ok |-> TRUE, data |-> <<>>, embeds |-> 0]

----------------------------------------------------------------------------
(* semanticSearch and read.  A query is [isString, text, id, type,         *)
(* searchTerm]: a string query carries text, an object query the optional  *)
(* id, type and filters.searchTerm.  A result is [answer, sources,         *)
(* confidence, strategy, metadata]; a thrown error is <<>>.                *)

\* btoa throws on a code unit above 0xFF
BtoaThrows(query) == \E i \in 1..Len(query) : query[i] \in WideChars

SemanticCacheKey(query, options) ==
  [ns |-> "semantic", name |-> "", text |-> query, opts |-> options]

\* options.limit || dflt
LimitOr(options, dflt) ==
  IF options.limit # <<>> /\ options.limit[1] > 0 THEN options.limit[1]
  ELSE dflt

\* Faulty variant of ThresholdOr: the caller's threshold is not looked at.
ThresholdOr_IgnoresOption(options, dflt) == dflt

\* options.threshold ?? dflt
ThresholdOr(options, dflt) ==
  IF options.threshold # <<>> THEN options.threshold[1] ELSE dflt

\* Array.prototype.sort is stable: an element goes behind its equals
RECURSIVE InsertByScore(_, _, _)
InsertByScore(sorted, x, i) ==
  IF i > Len(sorted) THEN Append(sorted, x)
  ELSE IF sorted[i].score < x.score
       THEN Slice(sorted, 0, i - 1) \o <<x>> \o Slice(sorted, i - 1, Len(sorted))
       ELSE InsertByScore(sorted, x, i + 1)

RECURSIVE SortByScore(_, _, _)
SortByScore(seq, i, acc) ==
  IF i > Len(seq) THEN acc
  ELSE SortByScore(seq, i + 1, InsertByScore(acc, seq[i], 1))

RECURSIVE SetToSeq(_)
SetToSeq(S) ==
  IF S = {} THEN <<>>
  ELSE LET x == CHOOSE y \in S : TRUE IN <<x>> \o SetToSeq(S \ {x})

RemoteMatches(R, hits, vector) ==
  [i \in 1..Len(hits) |->
     [id |-> hits[i], score |-> CosineSimilarity(vector, R[hits[i]].values),
      metadata |-> R[hits[i]].metadata]]

\* PineconeService.query with the type and category filter of the options
RemoteQuery(R, vector, topK, options) ==
  Slice(SortByScore(
          RemoteMatches(R,
            SetToSeq({v \in DOMAIN R :
               /\ Truthy(options.type) => R[v].metadata.type = options.type[1]
               /\ Truthy(options.category)
                    => R[v].metadata.category = options.category}),
            vector),
          1, <<>>),
        0, topK)

GenerateIntelligentAnswer(query, sources) ==
  IF Len(sources) = 0
  THEN [kind |-> "none", query |-> query, count |-> 0, pct |-> 0,
        top |-> <<>>]
  ELSE [kind |-> "found", query |-> <<>>, count |-> Len(sources),
        pct |-> sources[1].score, top |-> Slice(sources[1].content, 0, 300)]

SemanticResult(sources, query, strategy, total, threshold) ==
  [answer |-> GenerateIntelligentAnswer(query, sources),
   sources |-> sources,
   confidence |-> IF Len(sources) > 0 THEN sources[1].score ELSE 0,
   strategy |-> strategy,
   metadata |-> <<[totalMatches |-> total, filteredMatches |-> Len(sources),
                   threshold |-> threshold]>>]

\* cache.set(cacheKey, result, 300); return result
CacheResult(W, cacheKey, t, result, embeds) ==
  [W |-> [W EXCEPT !.cache =
            CacheSet(@, cacheKey, result, SemanticTtlSeconds, t)],
   res |-> <<result>>, embeds |-> embeds]

RemoteSources(matches) ==
  [i \in 1..Len(matches) |->
     [id |-> matches[i].metadata.originalId,
      content |-> matches[i].metadata.content,
      score |-> matches[i].score]]

RemoteRanked(W, matches, query, cacheKey, t, threshold) ==
  CacheResult(W, cacheKey, t,
    SemanticResult(
      RemoteSources(SelectSeq(matches, LAMBDA m : m.score >= threshold)),
      query, "semantic_search_pinecone", Len(matches), threshold),
    1)

RemoteSearch(W, query, options, cacheKey, t) ==
  RemoteRanked(W,
    RemoteQuery(W.remote, GenerateEmbedding(query),
                LimitOr(options, DefaultLimit), options),
    query, cacheKey, t, ThresholdOr(options, RemoteThreshold))

BackfilledEntity(c) ==
  [c EXCEPT !.metadata.embedding =
              <<GenerateEmbedding(
                  FirstChunkOr(ChunkText(c.content, ChunkMaxLength),
                               c.content))>>,
            !.metadata.indexed = <<TRUE>>]

\* the loop over the candidates; calls counts the embedding calls made
RECURSIVE Backfill(_, _, _, _, _, _)
Backfill(W, candidates, i, enriched, calls, budget) ==
  IF i > Len(candidates)
  THEN [W |-> W, ok |-> TRUE, enriched |-> enriched, calls |-> calls]
  ELSE IF candidates[i].metadata.embedding # <<>>
  THEN Backfill(W, candidates, i + 1, Append(enriched, candidates[i]),
                calls, budget)
  ELSE IF calls + 1 > budget
  THEN [W |-> W, ok |-> FALSE, enriched |-> enriched, calls |-> calls + 1]
  ELSE Backfill(StoreBrainData(W, BackfilledEntity(candidates[i])),
                candidates, i + 1,
                Append(enriched, BackfilledEntity(candidates[i])),
                calls + 1, budget)

\* Faulty variant of KvScored: the scored candidates are left in the order
\* they were fetched in.
KvScored_Unsorted(enriched, queryEmbedding) ==
  [i \in 1..Len(enriched) |->
     [entity |-> enriched[i],
      score |-> CosineSimilarity(queryEmbedding,
                                 enriched[i].metadata.embedding[1])]]

KvScored(enriched, queryEmbedding) ==
  SortByScore(
    [i \in 1..Len(enriched) |->
       [entity |-> enriched[i],
        score |-> CosineSimilarity(queryEmbedding,
                                   enriched[i].metadata.embedding[1])]],
    1, <<>>)

KvSources(kept) ==
  [i \in 1..Len(kept) |->
     [id |-> kept[i].entity.id, content |-> kept[i].entity.content,
      score |-> kept[i].score]]

KvRanked(W, scored, query, options, cacheKey, t, threshold, embeds) ==
  CacheResult(W, cacheKey, t,
    SemanticResult(
      KvSources(Slice(SelectSeq(scored, LAMBDA x : x.score >= threshold),
                      0, LimitOr(options, DefaultLimit))),
      query, "semantic_search_kv", Len(scored), threshold),
    embeds)

KvBackfilled(bf, query, options, cacheKey, t) ==
  IF ~bf.ok THEN [W |-> bf.W, res |-> <<>>, embeds |-> bf.calls]
  ELSE KvRanked(bf.W, KvScored(bf.enriched, GenerateEmbedding(query)),
                query, options, cacheKey, t,
                ThresholdOr(options, KvThreshold), bf.calls)

KvSearch(W, query, options, budget, cacheKey, t) ==
  KvBackfilled(Backfill(W, GetEntities(W, options), 1, <<>>, 1, budget),
               query, options, cacheKey, t)

SemanticLookup(W, got, query, options, budget, queryOk, cacheKey, t) ==
  IF got.value # <<>>
  THEN [W |-> W,
        res |-> <<[got.value[1] EXCEPT !.strategy = "cached_semantic"]>>,
        embeds |-> 0]
  ELSE IF budget < 1
  THEN [W |-> [W EXCEPT !.cache = got.cache], res |-> <<>>, embeds |-> 1]
  ELSE IF W.pinecone /\ ~queryOk
  THEN [W |-> [W EXCEPT !.cache = got.cache], res |-> <<>>, embeds |-> 1]
  ELSE IF W.pinecone
  THEN RemoteSearch([W EXCEPT !.cache = got.cache], query, options,
                    cacheKey, t)
  ELSE KvSearch([W EXCEPT !.cache = got.cache], query, options, budget,
                cacheKey, t)

SemanticSearch(W, query, options, budget, queryOk, t) ==
  IF BtoaThrows(query) THEN [W |-> W, res |-> <<>>, embeds |-> 0]
  ELSE SemanticLookup(W, CacheGet(W.cache, SemanticCacheKey(query, options), t),
                      query, options, budget, queryOk,
                      SemanticCacheKey(query, options), t)

ErrorResult ==
  [answer |-> [kind |-> "error", query |-> <<>>, count |-> 0, pct |-> 0,
               top |-> <<>>],
   sources |-> <<>>, confidence |-> 0, strategy |-> "error",
   metadata |-> <<>>]

\* Faulty variant of DirectResult: the source is built as the type-filter
\* branch builds it, with score and confidence 0.9.
DirectResult_TypeFilterScore(query, direct) ==
  [answer |-> [kind |-> "direct", query |-> <<>>, count |-> 1, pct |-> 0,
               top |-> <<query.id[1]>>],
   sources |-> <<[id |-> direct.id, content |-> direct.content,
                  score |-> TypeFilterScore]>>,
   confidence |-> TypeFilterScore, strategy |-> "direct_lookup",
   metadata |-> <<>>]

DirectResult(query, direct) ==
  [answer |-> [kind |-> "direct", query |-> <<>>, count |-> 1, pct |-> 0,
               top |-> <<query.id[1]>>],
   sources |-> <<[id |-> direct.id, content |-> direct.content,
                  score |-> DirectScore]>>,
   confidence |-> DirectScore, strategy |-> "direct_lookup",
   metadata |-> <<>>]

TypeResult(query, typeResults) ==
  [answer |-> [kind |-> "type", query |-> <<>>, count |-> Len(typeResults),
               pct |-> 0, top |-> <<query.type[1]>>],
   sources |-> [i \in 1..Len(typeResults) |->
                  [id |-> typeResults[i].id,
                   content |-> typeResults[i].content,
                   score |-> TypeFilterScore]],
   confidence |-> TypeFilterScore, strategy |-> "type_filter",
   metadata |-> <<>>]

\* typeof query === "string" ? query : query.filters?.searchTerm || "general search"
SearchQuery(query) ==
  IF query.isString THEN query.text
  ELSE IF query.searchTerm # <<>> /\ query.searchTerm[1] # <<>>
       THEN query.searchTerm[1]
       ELSE GeneralSearch

DirectLookup(W, query) ==
  IF ~query.isString /\ Truthy(query.id)
  THEN RetrieveBrainData(W, query.id[1])
  ELSE <<>>

\* Faulty variant of TypeLookup: the limit of the options is not passed on,
\* listByType runs with its own default.
TypeLookup_IgnoresLimit(W, query, options) ==
  IF ~query.isString /\ Truthy(query.type)
  THEN ListByType(W, query.type[1], ListDefaultLimit, 0)
  ELSE <<>>

TypeLookup(W, query, options) ==
  IF ~query.isString /\ Truthy(query.type)
  THEN ListByType(W, query.type[1], LimitOr(options, DefaultLimit), 0)
  ELSE <<>>

\* Faulty variant of ReadLadder: the type filter is tried before the direct
\* lookup.
ReadLadder_TypeFilterFirst(W, query, direct, typeResults, sem) ==
  IF Len(typeResults) > 0
  THEN [W |-> W, res |-> TypeResult(query, typeResults), embeds |-> 0,
        semantic |-> FALSE]
  ELSE IF direct # <<>>
  THEN [W |-> W, res |-> DirectResult(query, direct[1]), embeds |-> 0,
        semantic |-> FALSE]
  ELSE [W |-> sem.W,
        res |-> IF sem.res = <<>> THEN ErrorResult ELSE sem.res[1],
        embeds |-> sem.embeds, semantic |-> TRUE]

\* Faulty variant of ReadLadder: a cached semantic result of the query is
\* served before the direct lookup and the type filter are tried.
ReadLadder_CachedFirst(W, query, direct, typeResults, sem) ==
  IF sem.res # <<>> /\ sem.res[1].strategy = "cached_semantic"
  THEN [W |-> sem.W, res |-> sem.res[1], embeds |-> sem.embeds,
        semantic |-> TRUE]
  ELSE IF direct # <<>>
  THEN [W |-> W, res |-> DirectResult(query, direct[1]), embeds |-> 0,
        semantic |-> FALSE]
  ELSE IF Len(typeResults) > 0
  THEN [W |-> W, res |-> TypeResult(query, typeResults), embeds |-> 0,
        semantic |-> FALSE]
  ELSE [W |-> sem.W,
        res |-> IF sem.res = <<>> THEN ErrorResult ELSE sem.res[1],
        embeds |-> sem.embeds, semantic |-> TRUE]

\* the three strategies in the order read tries them; key is the semantic
\* search the call reached, <<>> when an earlier strategy answered
ReadLadder(W, query, direct, typeResults, sem) ==
  IF direct # <<>>
  THEN [W |-> W, res |-> DirectResult(query, direct[1]), embeds |-> 0,
        semantic |-> FALSE]
  ELSE IF Len(typeResults) > 0
  THEN [W |-> W, res |-> TypeResult(query, typeResults), embeds |-> 0,
        semantic |-> FALSE]
  ELSE [W |-> sem.W,
        res |-> IF sem.res = <<>> THEN ErrorResult ELSE sem.res[1],
        embeds |-> sem.embeds, semantic |-> TRUE]

ReadOp(W, query, options, budget, queryOk, t) ==
  ReadLadder(W, query, DirectLookup(W, query), TypeLookup(W, query, options),
             SemanticSearch(W, SearchQuery(query), options, budget, queryOk, t))

----------------------------------------------------------------------------
(* The state machine.  Every public method of the agent is one action; it  *)
(* runs to completion on the current world.  last records the call that    *)
(* was made and what it returned:                                          *)
(*   op, id   the method and the id it was given ("" for a read without)   *)
(*   ok       the success flag (for a read: strategy is not "error")       *)
(*   res      <<QueryResult>> of a read                                    *)
(*   arg      <<entity>> given to create, <<patch>> given to update,      *)
(*            <<query>> given to read                                      *)
(*   key      <<cache key>> of the semantic search a read reached          *)
(*   at       the clock at the call                                        *)
(*   embeds   the number of embedding calls the call made                  *)
(*   again    the call before was the same method on the same id and key   *)

World == [store |-> store, typeIndex |-> typeIndex, catIndex |-> catIndex,
          cache |-> cache, remote |-> remote, pinecone |-> pinecone]

\* the requests that may run at the same time
Workers == {"w1", "w2"}

\* a request that is in no StorageService call
IdleCall ==
  [pc |-> "idle", id |-> "", entity |-> <<>>, operation |-> "", ids |-> <<>>,
   depth |-> 0]

InitWith(remoteConfigured) ==
  /\ store = EmptyMap
  /\ typeIndex = EmptyMap
  /\ catIndex = EmptyMap
  /\ cache = EmptyMap
  /\ remote = EmptyMap
  /\ pinecone \in remoteConfigured
  /\ now = 0
  /\ inflight = [w \in Workers |-> IdleCall]
  /\ last = [op |-> "init", id |-> "", ok |-> TRUE, res |-> <<>>,
             arg |-> <<>>, key |-> <<>>, at |-> 0, embeds |-> 0,
             again |-> FALSE]

Becomes(W) ==
  /\ store' = W.store
  /\ typeIndex' = W.typeIndex
  /\ catIndex' = W.catIndex
  /\ cache' = W.cache
  /\ remote' = W.remote
  /\ UNCHANGED <<pinecone, now, inflight>>

Returned(r, op, id, arg) ==
  /\ Becomes(r.W)
  /\ last' = [op |-> op, id |-> id, ok |-> r.ok, res |-> <<>>, arg |-> arg,
              key |-> <<>>, at |-> now, embeds |-> r.embeds,
              again |-> (last.op = op /\ last.id = id)]

QueryId(query) ==
  IF ~query.isString /\ Truthy(query.id) THEN query.id[1] ELSE ""

Answered(r, query, id, key) ==
  /\ Becomes(r.W)
  /\ last' = [op |-> "read", id |-> id, ok |-> r.res.strategy # "error",
              res |-> <<r.res>>, arg |-> <<query>>,
              key |-> IF r.semantic THEN <<key>> ELSE <<>>,
              at |-> now, embeds |-> r.embeds,
              again |-> (/\ last.op = "read"
                         /\ last.id = id
                         /\ last.key = IF r.semantic THEN <<key>> ELSE <<>>)]

Create(inputs, budgets, outcomes) ==
  \E data \in inputs, budget \in budgets, upOk \in outcomes :
     Returned(CreateOp(World, data, budget, upOk), "create", data.id,
              <<data>>)

GetById(ids) ==
  \E id \in ids : Returned(GetByIdOp(World, id), "getById", id, <<>>)

Update(inputs, budgets, outcomes) ==
  \E call \in inputs, budget \in budgets, delOk \in outcomes,
     upOk \in outcomes :
     /\ call.id \in DOMAIN store => VersionOr1(store[call.id]) < MaxVersion
     /\ Returned(UpdateOp(World, call.id, call.updates, budget, delOk, upOk),
                 "update", call.id, <<call.updates>>)

Delete(ids, outcomes) ==
  \E id \in ids, delOk \in outcomes :
     Returned(DeleteOp(World, id, delOk), "delete", id, <<>>)

Read(queries, optionSet, budgets, outcomes) ==
  \E query \in queries, options \in optionSet, budget \in budgets,
     queryOk \in outcomes :
     Answered(ReadOp(World, query, options, budget, queryOk, now),
              query, QueryId(query), SemanticCacheKey(SearchQuery(query), options))

\* Date.now() moves on between two calls
Tick ==
  /\ now < MaxTicks * TickMs
  /\ now' = now + TickMs
  /\ UNCHANGED <<store, typeIndex, catIndex, cache, remote, pinecone, last,
                 inflight>>

----------------------------------------------------------------------------
(* Spec: the CRUD methods and the read ladder on one entity id, with the   *)
(* clock standing still and the remote index answering every call.         *)

Ids == {"a", "b"}

UserMetas ==
  {NoMeta, [NoMeta EXCEPT !.category = <<"k">>],
   [NoMeta EXCEPT !.version = <<9>>, !.previousVersion = <<9>>]}

CreateInputs ==
  [id : {"a"}, content : {ContentA}, type : {"note"}, metadata : UserMetas]
  \cup {[id |-> "a", content |-> EmptyText, type |-> "note",
         metadata |-> NoMeta]}

NoPatch == [id |-> <<>>, content |-> <<>>, type |-> <<>>, metadata |-> NoMeta]

Patches ==
  [id : {<<>>}, content : {<<ContentA>>, <<ContentB>>}, type : {<<>>},
   metadata : {NoMeta}]
  \cup [id : {<<>>}, content : {<<>>}, type : {<<>>, <<"doc">>},
        metadata : UserMetas]
  \cup [id : {<<"b">>}, content : {<<>>, <<ContentB>>}, type : {<<>>},
        metadata : {NoMeta}]

UpdateInputs == [id : {"a"}, updates : Patches]
                \cup {[id |-> "b", updates |-> NoPatch]}

ObjectQueries ==
  [isString : {FALSE}, text : {<<>>}, id : {<<>>, <<"a">>, <<"b">>},
   type : {<<>>, <<"note">>}, searchTerm : {<<>>}]

Budgets == {0, 3}

Init == InitWith(BOOLEAN)

Next ==
  \/ Create(CreateInputs, Budgets, {TRUE})
  \/ GetById(Ids)
  \/ Update(UpdateInputs, Budgets, {TRUE})
  \/ Delete(Ids, {TRUE})
  \/ Read(ObjectQueries, {NoOptions}, Budgets, {TRUE})

Spec == Init /\ [][Next]_vars

----------------------------------------------------------------------------
(* Properties of update, create, delete and the read ladder, under Spec.   *)

\* a step in which a method was called (the clock alone moving is not one)
CallStep ==
  <<store, typeIndex, catIndex, cache, remote, last>>'
    # <<store, typeIndex, catIndex, cache, remote, last>>

NoIndexLists(id) ==
  /\ \A t \in DOMAIN typeIndex : ~Includes(typeIndex[t], id)
  /\ \A c \in DOMAIN catIndex : ~Includes(catIndex[c], id)

C2_VersionNeverDecreases ==
  [][\A id \in DOMAIN store \cap DOMAIN store' :
       VersionOr1(store'[id]) >= VersionOr1(store[id])]_vars

\* C3: update never changes the id of the stored entity: the record is
\* written under the key it was read from, with field id equal to that
\* key, even when the patch carries another id; no other key appears.
C3_UpdateKeepsId ==
  [][(CallStep /\ last'.op = "update" /\ last'.id \in DOMAIN store)
       => /\ DOMAIN store' = DOMAIN store
          /\ \A k \in DOMAIN store' : store'[k].id = k]_vars

\* a successful update whose patch carried the id "b" left the entity
\* under "a" with id "a"
C3_Witness ==
  /\ last.op = "update"
  /\ last.ok
  /\ last.id = "a"
  /\ last.arg[1].id = <<"b">>
  /\ DOMAIN store = {"a"}
  /\ store["a"].id = "a"

\* C4: delete always returns success, also for an id that was never
\* created, and after delete(id) was called twice in a row no type index
\* list and no category index list contains the id.
C4_DeleteTwiceLeavesNoIndexEntry ==
  /\ last.op = "delete" => last.ok
  /\ (last.op = "delete" /\ last.again) => NoIndexLists(last.id)

\* C6: a read with an object query whose id names a stored entity returns
\* direct_lookup whatever else the query carries; the type filter answers
\* only when the direct lookup found nothing, and the semantic search is
\* reached only when the type filter found nothing either.
C6_StrategyLadder ==
  [][(CallStep /\ last'.op = "read")
       => /\ DirectLookup(World, last'.arg[1]) # <<>>
               => last'.res[1].strategy = "direct_lookup"
          /\ last'.res[1].strategy = "type_filter"
               => DirectLookup(World, last'.arg[1]) = <<>>
          /\ last'.key # <<>>
               => /\ DirectLookup(World, last'.arg[1]) = <<>>
                  /\ TypeLookup(World, last'.arg[1], last'.key[1].opts)
                       = <<>>]_vars

\* a query with a stored id and a type was answered by direct lookup while
\* the type filter had a match and the cache held a semantic result
C6_Witness ==
  /\ last.op = "read"
  /\ last.arg[1].id = <<"a">>
  /\ last.arg[1].type = <<"note">>
  /\ last.res[1].strategy = "direct_lookup"
  /\ TypeLookup(World, last.arg[1], NoOptions) # <<>>
  /\ \E k \in DOMAIN cache : k.ns = "semantic"

\* C7: a read({id}) right after a successful create of that id returns
\* exactly one source with that id, score 1.0 and the content handed to
\* create, and confidence 1.0.
C7_CreateReadRoundTrip ==
  [][(/\ last.op = "create"
      /\ last.ok
      /\ last'.op = "read"
      /\ last'.id = last.id)
       => /\ last'.res[1].sources
               = <<[id |-> last.id, content |-> last.arg[1].content,
                    score |-> DirectScore]>>
          /\ last'.res[1].confidence = DirectScore]_vars

\* a read by id returned the entity in the state create left it in
C7_Witness ==
  /\ last.op = "read"
  /\ last.id = "a"
  /\ "a" \in DOMAIN store
  /\ store["a"].metadata.version = <<1>>
  /\ store["a"].metadata.indexed = <<TRUE>>
  /\ last.res[1].sources
       = <<[id |-> "a", content |-> ContentA, score |-> DirectScore]>>
  /\ last.res[1].confidence = DirectScore

----------------------------------------------------------------------------
(* SpecCache: semantic searches on one entity with the clock moving, the   *)
(* embedding provider and the remote index answering every call.           *)

Answering == {3}

CacheCreates ==
  {[id |-> "a", content |-> ContentA, type |-> "note", metadata |-> NoMeta]}

CacheUpdates ==
  [id : {"a"},
   updates : [id : {<<>>}, content : {<<ContentA>>, <<ContentB>>},
              type : {<<>>}, metadata : {NoMeta}]]

CacheQueries ==
  [isString : {TRUE}, text : {Query1, QueryWide}, id : {<<>>},
   type : {<<>>}, searchTerm : {<<>>}]
  \cup [isString : {FALSE}, text : {<<>>}, id : {<<>>, <<"a">>},
        type : {<<>>}, searchTerm : {<<>>}]

CacheOptions == {[NoOptions EXCEPT !.type = <<"note">>]}

InitCache == InitWith(BOOLEAN)

NextCache ==
  \/ Create(CacheCreates, Answering, {TRUE})
  \/ Update(CacheUpdates, Answering, {TRUE})
  \/ Delete({"a"}, {TRUE})
  \/ Read(CacheQueries, CacheOptions, Answering, {TRUE})
  \/ Tick

SpecCache == InitCache /\ [][NextCache]_vars

----------------------------------------------------------------------------
(* Properties of the semantic-search cache, under SpecCache.               *)

Writes == {"create", "update", "delete"}

\* a semantic cache entry whose options name the type or the category of
\* the entity
ScopedTo(k, entity) ==
  /\ k.ns = "semantic"
  /\ \/ k.opts.type = <<entity.type>>
     \/ /\ Truthy(entity.metadata.category)
        /\ k.opts.category = entity.metadata.category

\* the unexpired semantic entries of C scoped to the record S holds for id
ServableFor(C, S, id, t) ==
  {k \in DOMAIN C : /\ id \in DOMAIN S
                    /\ ScopedTo(k, S[id])
                    /\ ~(C[k].expires # 0 /\ t > C[k].expires)}

\* C5: a read({id}) that follows a successful delete(id) reports not
\* found: no source of its result has the deleted id, and listByType
\* returns that id for no type.
C5_ReadAfterDeleteNotFound ==
  [][(/\ last.op = "delete"
      /\ last.ok
      /\ last'.op = "read"
      /\ last'.id = last.id)
       => /\ \A i \in 1..Len(last'.res[1].sources) :
               last'.res[1].sources[i].id # last.id
          /\ \A t \in DOMAIN typeIndex' :
               \A i \in 1..Len(ListByType(World', t, ListDefaultLimit, 0)) :
                  ListByType(World', t, ListDefaultLimit, 0)[i].id
                    # last.id]_vars

\* C8: when a semantic search is followed by the same search (same query,
\* same options, no call in between) within 300 seconds, the second result
\* is marked cached, has the answer, sources and confidence of the first
\* and was made without an embedding call; after more than 300 seconds the
\* second search is not marked cached.
C8_SecondSearchCachedWithinTtl ==
  [][(/\ CallStep
      /\ last.op = "read"
      /\ last.key # <<>>
      /\ last.res[1].strategy # "cached_semantic"
      /\ last'.op = "read"
      /\ last'.key = last.key)
       => IF last'.at <= last.at + SemanticTtlSeconds * 1000
          THEN /\ last'.res[1].strategy = "cached_semantic"
               /\ last'.res[1].answer = last.res[1].answer
               /\ last'.res[1].sources = last.res[1].sources
               /\ last'.res[1].confidence = last.res[1].confidence
               /\ last'.embeds = 0
          ELSE last'.res[1].strategy # "cached_semantic"]_vars

\* C9: when a create, update or delete of an entity completes, no
\* unexpired semantic cache entry scoped to the type or the category the
\* entity had before or has after the write is left to serve a search.
C9_WriteInvalidatesScopedEntries ==
  [][(CallStep /\ last'.op \in Writes /\ last'.ok)
       => /\ ServableFor(cache', store, last'.id, now') = {}
          /\ ServableFor(cache', store', last'.id, now') = {}]_vars

\* C10: a successful update whose patch changes the content stores the
\* previous version + 1, and the semantic search (brute-force mode) that
\* follows a successful update with a content scores the entity with the
\* embedding of the content now stored.
C10_UpdateReembedsForSearch ==
  [][/\ (/\ CallStep
         /\ last'.op = "update"
         /\ last'.ok
         /\ last'.id \in DOMAIN store
         /\ ContentChanged(store[last'.id], last'.arg[1]))
          => store'[last'.id].metadata.version
               = <<VersionOr1(store[last'.id]) + 1>>
     /\ (/\ ~pinecone
         /\ last.op = "update"
         /\ last.ok
         /\ last.arg[1].content # <<>>
         /\ last'.op = "read"
         /\ last'.key # <<>>)
          => \A i \in 1..Len(last'.res[1].sources) :
               last'.res[1].sources[i].id = last.id
                 => last'.res[1].sources[i].score
                      = CosineSimilarity(
                          GenerateEmbedding(last'.key[1].text),
                          GenerateEmbedding(store[last.id].content))]_vars

----------------------------------------------------------------------------
(* SpecCacheService: the methods of CacheService called directly, with the *)
(* clock moving.  last.key is the key of the call, last.res what get       *)
(* returned.                                                               *)

CacheCalled(C, op, key, value) ==
  /\ cache' = C
  /\ UNCHANGED <<store, typeIndex, catIndex, remote, pinecone, now, inflight>>
  /\ last' = [op |-> op, id |-> "", ok |-> TRUE, res |-> value, arg |-> <<>>,
              key |-> <<key>>, at |-> now, embeds |-> 0,
              again |-> (last.op = op /\ last.key = <<key>>)]

CacheGot(got, key) == CacheCalled(got.cache, "cache.get", key, got.value)

CacheServiceGet(keys) ==
  \E key \in keys : CacheGot(CacheGet(cache, key, now), key)

CacheServiceSet(keys, values, ttls) ==
  \E key \in keys, value \in values, ttlSeconds \in ttls :
     CacheCalled(CacheSet(cache, key, value, ttlSeconds, now), "cache.set",
                 key, <<value>>)

CacheServiceDelete(keys) ==
  \E key \in keys : CacheCalled(CacheDelete(cache, key), "cache.delete", key,
                                <<>>)

ServiceKeys == {TypeCacheKey("note"), CategoryCacheKey("k")}
ServiceValues == {"v", "w"}
ServiceTtls == {SemanticTtlSeconds, DefaultCacheTtlSeconds}

InitCacheService == InitWith({FALSE})

NextCacheService ==
  \/ CacheServiceGet(ServiceKeys)
  \/ CacheServiceSet(ServiceKeys, ServiceValues, ServiceTtls)
  \/ CacheServiceDelete(ServiceKeys)
  \/ Tick

SpecCacheService == InitCacheService /\ [][NextCacheService]_vars

\* C11: a get never returns an entry after its expires timestamp: what it
\* returns is the value of an entry of the cache whose expires is not
\* before the clock, and a get later than expires returns nothing and
\* removes the entry, so that only a new set brings the key back.
C11_NoEntryPastExpires ==
  [][(CallStep /\ last'.op = "cache.get")
       => /\ last'.res # <<>>
               => /\ last'.key[1] \in DOMAIN cache
                  /\ now <= cache[last'.key[1]].expires
                  /\ last'.res = <<cache[last'.key[1]].value>>
          /\ (/\ last'.key[1] \in DOMAIN cache
              /\ now > cache[last'.key[1]].expires)
               => /\ last'.res = <<>>
                  /\ last'.key[1] \notin DOMAIN cache']_vars

\* a get found the entry past its expires timestamp, returned nothing and
\* removed it
C11_Witness ==
  /\ last.op = "cache.get"
  /\ last.res = <<>>
  /\ last.at > SemanticTtlSeconds * 1000
  /\ last.key[1] \notin DOMAIN cache
  /\ \E k \in DOMAIN cache : cache[k].expires >= last.at

----------------------------------------------------------------------------
(* SpecSearch: semantic searches over two entities with thresholds and     *)
(* limits in the options, in both index modes.  At most MaxCached search   *)
(* results are held in the cache.                                          *)

SearchCreates ==
  {[id |-> "a", content |-> ContentC, type |-> "note", metadata |-> NoMeta],
   [id |-> "b", content |-> ContentA, type |-> "note", metadata |-> NoMeta]}

SearchQueries ==
  {[isString |-> TRUE, text |-> Query1, id |-> <<>>, type |-> <<>>,
    searchTerm |-> <<>>],
   [isString |-> FALSE, text |-> <<>>, id |-> <<>>, type |-> <<>>,
    searchTerm |-> <<>>]}

SearchOptions ==
  {NoOptions,
   [NoOptions EXCEPT !.threshold = <<0>>, !.limit = <<1>>],
   [NoOptions EXCEPT !.threshold = <<0>>, !.limit = <<0>>],
   [NoOptions EXCEPT !.threshold = <<90>>]}

InitSearch == InitWith(BOOLEAN)

NextSearch ==
  \/ Create(SearchCreates, Answering, {TRUE})
  \/ /\ Read(SearchQueries, SearchOptions, Answering, {TRUE})
     /\ Cardinality(DOMAIN cache') <= MaxCached

SpecSearch == InitSearch /\ [][NextSearch]_vars

\* the threshold in force for a semantic search with these options
EffectiveThreshold(opts) ==
  IF opts.threshold # <<>> THEN opts.threshold[1]
  ELSE IF pinecone THEN RemoteThreshold ELSE KvThreshold

\* the number of sources a brute-force search with these options may return
EffectiveLimit(opts) ==
  IF opts.limit # <<>> /\ opts.limit[1] > 0 THEN opts.limit[1]
  ELSE DefaultLimit

\* the similarity of the stored embedding of id to the query
StoredScore(S, id, query) ==
  CosineSimilarity(GenerateEmbedding(query), S[id].metadata.embedding[1])

\* the ids of the stored entities that pass the threshold for the query
Passing(S, query, threshold) ==
  {id \in DOMAIN S : StoredScore(S, id, query) >= threshold}

\* C12: no source returned by a semantic search, computed or served from
\* the cache, in the remote or the brute-force branch, has a score below
\* the threshold in force: options.threshold when given (0 included), else
\* 0.3 with a remote index and 0.25 without.
C12_NoSourceBelowThreshold ==
  (last.op = "read" /\ last.key # <<>>)
    => \A i \in 1..Len(last.res[1].sources) :
         last.res[1].sources[i].score >= EffectiveThreshold(last.key[1].opts)

\* a search with threshold 0.9 returned one source, with a score of at
\* least 0.9, out of two candidates
C12_Witness ==
  /\ last.op = "read"
  /\ last.key # <<>>
  /\ last.key[1].opts.threshold = <<90>>
  /\ Len(last.res[1].sources) = 1
  /\ last.res[1].sources[1].score >= 90
  /\ last.res[1].metadata[1].totalMatches = 2

\* C13: a brute-force search returns at most options.limit sources (10
\* when the limit is absent or not positive), in non-increasing order of
\* score, one per entity, and they are the highest-scoring stored entities
\* that pass the threshold.
C13_TopSourcesInOrder ==
  [][(/\ CallStep
      /\ last'.op = "read"
      /\ last'.res[1].strategy = "semantic_search_kv")
       => /\ Len(last'.res[1].sources)
               <= EffectiveLimit(last'.key[1].opts)
          /\ \A i, j \in 1..Len(last'.res[1].sources) :
               i < j => /\ last'.res[1].sources[i].score
                             >= last'.res[1].sources[j].score
                        /\ last'.res[1].sources[i].id
                             # last'.res[1].sources[j].id
          /\ \A i \in 1..Len(last'.res[1].sources) :
               /\ last'.res[1].sources[i].id
                    \in Passing(store', last'.key[1].text,
                                EffectiveThreshold(last'.key[1].opts))
               /\ last'.res[1].sources[i].score
                    = StoredScore(store', last'.res[1].sources[i].id,
                                  last'.key[1].text)
               /\ last'.res[1].sources[i].content
                    = store'[last'.res[1].sources[i].id].content
          /\ \A id \in Passing(store', last'.key[1].text,
                               EffectiveThreshold(last'.key[1].opts)) :
               \/ \E i \in 1..Len(last'.res[1].sources) :
                     last'.res[1].sources[i].id = id
               \/ /\ Len(last'.res[1].sources)
                       = EffectiveLimit(last'.key[1].opts)
                  /\ \A i \in 1..Len(last'.res[1].sources) :
                       last'.res[1].sources[i].score
                         >= StoredScore(store', id, last'.key[1].text)]_vars

\* a brute-force search with limit 1 and threshold 0 returned the higher
\* scoring of two entities, which is not the first in store order
C13_Witness ==
  /\ last.op = "read"
  /\ last.res[1].strategy = "semantic_search_kv"
  /\ last.key[1].opts.limit = <<1>>
  /\ last.res[1].metadata[1].totalMatches = 2
  /\ Len(last.res[1].sources) = 1
  /\ last.res[1].sources[1].id = "b"
  /\ GetAllBrainEntityIds(World) = <<"a", "b">>

----------------------------------------------------------------------------
(* SpecFaults: the methods on one entity with invalid inputs, an unknown   *)
(* id, an embedding provider that stops answering after 0, 1 or 3 calls    *)
(* and a remote index whose calls may fail.                                *)

ValidEntity ==
  [id |-> "a", content |-> ContentA, type |-> "note", metadata |-> NoMeta]

FaultCreates ==
  {ValidEntity,
   [ValidEntity EXCEPT !.id = ""],
   [ValidEntity EXCEPT !.content = EmptyText],
   [ValidEntity EXCEPT !.type = ""]}

FaultUpdates ==
  {[id |-> "a", updates |-> [NoPatch EXCEPT !.content = <<ContentB>>]],
   [id |-> "a", updates |-> [NoPatch EXCEPT !.type = <<"doc">>]],
   [id |-> "b", updates |-> [NoPatch EXCEPT !.content = <<ContentB>>]]}

FaultQueries ==
  [isString : {FALSE}, text : {<<>>}, id : {<<>>, <<"a">>}, type : {<<>>},
   searchTerm : {<<>>}]

FaultBudgets == {0, 1, 3}

InitFaults == InitWith(BOOLEAN)

NextFaults ==
  \/ Create(FaultCreates, FaultBudgets, BOOLEAN)
  \/ GetById({"a"})
  \/ Update(FaultUpdates, FaultBudgets, BOOLEAN)
  \/ Delete({"a"}, BOOLEAN)
  \/ Read(FaultQueries, {NoOptions}, FaultBudgets, BOOLEAN)

SpecFaults == InitFaults /\ [][NextFaults]_vars

\* nothing but last changes in the step
WritesNothing ==
  UNCHANGED <<store, typeIndex, catIndex, cache, remote>>

\* C14: a create whose id, content or type is missing or empty returns
\* success:false, leaves the store, both indexes, the cache and the remote
\* index as they were and makes no embedding call.
C14_InvalidCreateRejected ==
  [][(/\ CallStep
      /\ last'.op = "create"
      /\ \/ last'.arg[1].id = ""
         \/ last'.arg[1].content = <<>>
         \/ last'.arg[1].type = "")
       => /\ ~last'.ok
          /\ WritesNothing
          /\ last'.embeds = 0]_vars

\* a create without a type was rejected while an entity was stored
C14_Witness ==
  /\ last.op = "create"
  /\ last.arg[1].type = ""
  /\ ~last.ok
  /\ last.embeds = 0
  /\ DOMAIN store = {"a"}

\* C15: an update of an id that is not stored returns success:false with
\* data null and writes nothing: no record appears under the id and no
\* index, cache entry or remote vector changes.
C15_UpdateUnknownIdRejected ==
  [][(CallStep /\ last'.op = "update" /\ last'.id \notin DOMAIN store)
       => /\ ~last'.ok
          /\ WritesNothing
          /\ last'.id \notin DOMAIN store'
          /\ \A budget \in FaultBudgets, delOk \in BOOLEAN, upOk \in BOOLEAN :
               UpdateOp(World, last'.id, last'.arg[1], budget, delOk,
                        upOk).data = <<>>]_vars

\* an update of the unknown id "b" was rejected while "a" was stored
C15_Witness ==
  /\ last.op = "update"
  /\ last.id = "b"
  /\ ~last.ok
  /\ DOMAIN store = {"a"}


\* the embedding provider failed during the call: more calls were made
\* than it answers
ProviderFailed(r, budget) == r.embeds > budget

\* the remote upsert or query was reached (every embedding call before it
\* was answered) and failed
RemoteCallFailed(r, budget, remoteOk) ==
  /\ pinecone
  /\ ~remoteOk
  /\ r.embeds > 0
  /\ r.embeds <= budget

CrudFaultFails(r, budget, remoteOk) ==
  (ProviderFailed(r, budget) \/ RemoteCallFailed(r, budget, remoteOk))
    => (~r.ok /\ r.data = <<>>)

ReadFaultFails(r, budget, remoteOk) ==
  (ProviderFailed(r, budget) \/ RemoteCallFailed(r, budget, remoteOk))
    => /\ r.res.strategy = "error"
       /\ r.res.sources = <<>>
       /\ r.res.confidence = 0

\* in every reachable state, a create, update or read in which the
\* provider, the remote upsert or the remote query fails ends in a failure
\* result
UpsertQueryFaultsFail ==
  /\ \A data \in FaultCreates, budget \in FaultBudgets, upOk \in BOOLEAN :
       CrudFaultFails(CreateOp(World, data, budget, upOk), budget, upOk)
  /\ \A call \in FaultUpdates, budget \in FaultBudgets, delOk \in BOOLEAN,
        upOk \in BOOLEAN :
       CrudFaultFails(UpdateOp(World, call.id, call.updates, budget, delOk,
                               upOk), budget, upOk)
  /\ \A query \in FaultQueries, budget \in FaultBudgets,
        queryOk \in BOOLEAN :
       ReadFaultFails(ReadOp(World, query, NoOptions, budget, queryOk, now),
                      budget, queryOk)

\* the update re-indexes: the id is stored and the patch changes its content
Reindexes(call) ==
  /\ call.id \in DOMAIN store
  /\ ContentChanged(store[call.id], call.updates)

UnlistedIn(W, id) ==
  /\ \A t \in DOMAIN W.typeIndex : ~Includes(W.typeIndex[t], id)
  /\ \A c \in DOMAIN W.catIndex : ~Includes(W.catIndex[c], id)

\* C17: when the remote delete-by-filter call fails during delete(id),
\* delete still returns success, the primary record is gone and no type
\* index list and no category index list holds the id.
C17_FailedRemoteDeleteStillRemoves ==
  \A id \in Ids :
     pinecone
       => /\ DeleteOp(World, id, FALSE).ok
          /\ id \notin DOMAIN DeleteOp(World, id, FALSE).W.store
          /\ UnlistedIn(DeleteOp(World, id, FALSE).W, id)

\* the failed create r of data left the record stored but not indexed
StoredUnindexed(r, data) ==
  /\ ~r.ok
  /\ GetByIdOp(r.W, data.id).ok
  /\ GetByIdOp(r.W, data.id).data[1].id = data.id
  /\ GetByIdOp(r.W, data.id).data[1].content = data.content
  /\ GetByIdOp(r.W, data.id).data[1].metadata.version = <<1>>
  /\ GetByIdOp(r.W, data.id).data[1].metadata.indexed = <<FALSE>>
  /\ Includes(GetIndex(r.W.typeIndex, data.type), data.id)

\* C18: in every reachable state, a create of a valid entity during which
\* the embedding call fails returns success:false and leaves the entity
\* stored: getById returns it with version 1 and indexed false, and its
\* type index lists it.
C18_FailedCreateLeavesStoredRecord ==
  \A data \in FaultCreates, budget \in FaultBudgets, upOk \in BOOLEAN :
     (/\ data.id # ""
      /\ data.content # <<>>
      /\ data.type # ""
      /\ ProviderFailed(CreateOp(World, data, budget, upOk), budget))
       => StoredUnindexed(CreateOp(World, data, budget, upOk), data)

\* without a remote index, a create of the valid entity failed at its
\* one embedding call, and the record is stored, not indexed, and listed
C18_Witness ==
  /\ ~pinecone
  /\ last.op = "create"
  /\ last.arg[1] = ValidEntity
  /\ ~last.ok
  /\ last.embeds = 1
  /\ store["a"].metadata.indexed = <<FALSE>>
  /\ store["a"].metadata.version = <<1>>
  /\ Includes(GetIndex(typeIndex, "note"), "a")

----------------------------------------------------------------------------
(* SpecIndex: the StorageService calls of concurrent requests, interleaved *)
(* at every await.  create, update and delete write the record and the     *)
(* index lists only through storeBrainData and deleteBrainData, and read   *)
(* writes none of them; each request here runs these two calls one after   *)
(* the other with any arguments, one key-value operation per step.  The    *)
(* call of a request w is inflight[w] = [pc, id, entity, operation, ids]:  *)
(* pc is the key-value operation it makes next, entity is data             *)
(* (storeBrainData) or existing (deleteBrainData), ids the list last read. *)

\* the request is in no call
Free(w) == inflight[w].pc \in {"idle", "done"}

\* one key-value operation of the request w resolved
Awaited(w, call) ==
  /\ inflight' = [inflight EXCEPT ![w] = call]
  /\ UNCHANGED <<cache, remote, pinecone, now, last>>

\* after the type index, the category index if the entity has a category
AfterTypeIndex(call) ==
  IF Truthy(call.entity[1].metadata.category)
  THEN [call EXCEPT !.pc = "catGet"]
  ELSE [call EXCEPT !.pc = "done"]

\* storeBrainData(data): the put of the record
StorePut(entities) ==
  \E w \in Workers, data \in entities :
     /\ Free(w)
     /\ store' = Put(store, data.id, data)
     /\ Awaited(w, [IdleCall EXCEPT !.pc = "typeGet", !.id = data.id,
                                    !.entity = <<data>>,
                                    !.operation = "add"])
     /\ UNCHANGED <<typeIndex, catIndex>>

\* deleteBrainData(id): the read of the existing record
DeleteRetrieve(ids) ==
  \E w \in Workers, id \in ids :
     /\ Free(w)
     /\ Awaited(w, [IdleCall EXCEPT !.pc = "delete", !.id = id,
                                    !.entity = RetrieveBrainData(World, id),
                                    !.operation = "remove"])
     /\ UNCHANGED <<store, typeIndex, catIndex>>

\* deleteBrainData(id): the delete of the record
DeleteRecord ==
  \E w \in Workers :
     /\ inflight[w].pc = "delete"
     /\ store' = Remove(store, inflight[w].id)
     /\ Awaited(w, IF inflight[w].entity # <<>>
                   THEN [inflight[w] EXCEPT !.pc = "typeGet"]
                   ELSE [inflight[w] EXCEPT !.pc = "done"])
     /\ UNCHANGED <<typeIndex, catIndex>>

\* updateTypeIndex: the read of the list
TypeIndexGet ==
  \E w \in Workers :
     /\ inflight[w].pc = "typeGet"
     /\ Awaited(w, [inflight[w] EXCEPT
                      !.pc = "typePut",
                      !.ids = GetIndex(typeIndex, inflight[w].entity[1].type)])
     /\ UNCHANGED <<store, typeIndex, catIndex>>

\* updateTypeIndex: the write of the list computed from the list read
TypeIndexPut ==
  \E w \in Workers :
     /\ inflight[w].pc = "typePut"
     /\ typeIndex' = Put(typeIndex, inflight[w].entity[1].type,
                         IndexAfter(inflight[w].ids, inflight[w].id,
                                    inflight[w].operation))
     /\ Awaited(w, AfterTypeIndex(inflight[w]))
     /\ UNCHANGED <<store, catIndex>>

\* updateCategoryIndex: the read of the list
CategoryIndexGet ==
  \E w \in Workers :
     /\ inflight[w].pc = "catGet"
     /\ Awaited(w, [inflight[w] EXCEPT
                      !.pc = "catPut",
                      !.ids = GetIndex(catIndex,
                                inflight[w].entity[1].metadata.category[1])])
     /\ UNCHANGED <<store, typeIndex, catIndex>>

\* updateCategoryIndex: the write of the list computed from the list read
CategoryIndexPut ==
  \E w \in Workers :
     /\ inflight[w].pc = "catPut"
     /\ catIndex' = Put(catIndex, inflight[w].entity[1].metadata.category[1],
                        IndexAfter(inflight[w].ids, inflight[w].id,
                                   inflight[w].operation))
     /\ Awaited(w, [inflight[w] EXCEPT !.pc = "done"])
     /\ UNCHANGED <<store, typeIndex>>

IndexEntities ==
  {ValidEntity,
   [ValidEntity EXCEPT !.type = "doc", !.metadata.category = <<"k">>],
   [ValidEntity EXCEPT !.id = "b", !.metadata.category = <<"k">>]}

InitIndex == InitWith({FALSE})

NextIndex ==
  \/ StorePut(IndexEntities)
  \/ DeleteRetrieve(Ids)
  \/ DeleteRecord
  \/ TypeIndexGet
  \/ TypeIndexPut
  \/ CategoryIndexGet
  \/ CategoryIndexPut

SpecIndex == InitIndex /\ [][NextIndex]_vars

NoDuplicates(ids) ==
  \A i \in 1..Len(ids), j \in 1..Len(ids) : ids[i] = ids[j] => i = j

SameIndexLists(S1, S2) ==
  /\ S1.typeIndex = S2.typeIndex
  /\ S1.catIndex = S2.catIndex

\* C19: in every reachable state, under any interleaving of the storage
\* calls the requests make, every type index list and every category
\* index list holds an id at most once; and storing an entity a second
\* time leaves the index lists as they were after the first store.
C19_IdAtMostOncePerIndexList ==
  /\ \A t \in DOMAIN typeIndex : NoDuplicates(typeIndex[t])
  /\ \A c \in DOMAIN catIndex : NoDuplicates(catIndex[c])
  /\ \A data \in IndexEntities :
       SameIndexLists(StoreBrainData(StoreBrainData(World, data), data),
                      StoreBrainData(World, data))

\* two requests stored the entity "a" at the same time: each read the
\* empty list of type note before the other wrote it, both wrote, and the
\* list holds "a" once
C19_Witness ==
  /\ \A w \in Workers :
       /\ inflight[w].pc = "done"
       /\ inflight[w].operation = "add"
       /\ inflight[w].entity = <<ValidEntity>>
       /\ inflight[w].ids = <<>>
  /\ typeIndex["note"] = <<"a">>

\* the limits and offsets a list call is made with
ListLimits == {0, 1, ListDefaultLimit}
ListOffsets == {0, 1}

PositionIn(ids, id) == CHOOSE p \in 1..Len(ids) : ids[p] = id

\* the entities listed from the index list ids with offset and limit are
\* records of the store, at most limit of them, in the order of ids, and
\* none of the stored ids of the page is left out
ListedFrom(listed, ids, offset, limit) ==
  /\ Len(listed) <= limit
  /\ \A i \in 1..Len(listed) :
       /\ listed[i].id \in DOMAIN store
       /\ listed[i] = store[listed[i].id]
       /\ Includes(ids, listed[i].id)
  /\ \A i \in 1..Len(listed), j \in 1..Len(listed) :
       i < j => PositionIn(ids, listed[i].id) < PositionIn(ids, listed[j].id)
  /\ \A p \in 1..Len(ids) :
       (p > offset /\ p <= offset + limit /\ ids[p] \in DOMAIN store)
         => \E i \in 1..Len(listed) : listed[i].id = ids[p]

\* C20: in every reachable state, listByType and listByCategory skip the
\* ids of their index list whose record is absent: every entity returned
\* is a record now in the store, at most limit entities are returned, in
\* the order of the index list, and no stored id of the page is left out.
C20_ListsSkipDanglingEntries ==
  /\ \A type \in {"note", "doc"}, limit \in ListLimits,
        offset \in ListOffsets :
       ListedFrom(ListByType(World, type, limit, offset),
                  GetIndex(typeIndex, type), offset, limit)
  /\ \A category \in {"k"}, limit \in ListLimits :
       ListedFrom(ListByCategory(World, category, limit),
                  GetIndex(catIndex, category), 0, limit)

\* the list of type note holds "a", whose record is absent, before "b":
\* listByType returns the record of "b" alone, and nothing with limit 1;
\* the list of category k holds "b" before the absent "a"
C20_Witness ==
  /\ DOMAIN store = {"b"}
  /\ GetIndex(typeIndex, "note") = <<"a", "b">>
  /\ GetIndex(catIndex, "k") = <<"b", "a">>
  /\ ListByType(World, "note", ListDefaultLimit, 0) = <<store["b"]>>
  /\ ListByType(World, "note", 1, 0) = <<>>
  /\ ListByCategory(World, "k", ListDefaultLimit) = <<store["b"]>>

----------------------------------------------------------------------------
(* SpecExpiry: getById on records that carry an expiresAt.  The call of a  *)
(* request is followed one key-value read at a time: retrieveBrainData     *)
(* calls deleteBrainData on an expired record, and deleteBrainData begins  *)
(* by calling retrieveBrainData.  inflight[w].depth is the number of       *)
(* deleteBrainData calls suspended below the current one; it is counted up *)
(* to MaxDepth.  The key-value store itself may drop a record whose        *)
(* expirationTtl has run out, or keep it.                                  *)

\* entity.metadata?.expiresAt && entity.metadata.expiresAt < Date.now()
IsExpired(entity, t) ==
  /\ entity.metadata.expiresAt # <<>>
  /\ entity.metadata.expiresAt[1] # 0
  /\ entity.metadata.expiresAt[1] < t

ExpiringEntity == [ValidEntity EXCEPT !.metadata.expiresAt = <<TickMs>>]

\* a record is stored while no request is in a call
StoreWhileQuiet(entities) ==
  \E data \in entities :
     /\ \A w \in Workers : Free(w)
     /\ Becomes(StoreBrainData(World, data))
     /\ UNCHANGED last

\* the key-value store drops a record whose expirationTtl has run out
KvExpires ==
  \E id \in DOMAIN store :
     /\ store[id].metadata.expiresAt # <<>>
     /\ store[id].metadata.expiresAt[1] <= now
     /\ store' = Remove(store, id)
     /\ UNCHANGED <<typeIndex, catIndex, cache, remote, pinecone, now, last,
                    inflight>>

\* getById(id) calls retrieveBrainData(id)
GetStart(ids) ==
  \E w \in Workers, id \in ids :
     /\ Free(w)
     /\ Awaited(w, [IdleCall EXCEPT !.pc = "retrieve", !.id = id])
     /\ UNCHANGED <<store, typeIndex, catIndex>>

\* retrieveBrainData returned found (<<entity>> or <<>>): to getById at
\* depth 0, else to the deleteBrainData that called it
RetrieveReturned(call, found) ==
  IF call.depth = 0
  THEN [call EXCEPT !.pc = "returned", !.entity = found]
  ELSE [call EXCEPT !.pc = "cleanup", !.entity = found]

\* retrieveBrainData: the read of the record and the expiry check; an
\* expired record makes it call deleteBrainData
ExpiryRetrieve ==
  \E w \in Workers :
     /\ inflight[w].pc = "retrieve"
     /\ Awaited(w,
          IF inflight[w].id \notin DOMAIN store
          THEN RetrieveReturned(inflight[w], <<>>)
          ELSE IF IsExpired(store[inflight[w].id], now)
          THEN [inflight[w] EXCEPT !.pc = "expired"]
          ELSE RetrieveReturned(inflight[w], <<store[inflight[w].id]>>))
     /\ UNCHANGED <<store, typeIndex, catIndex>>

\* deleteBrainData called for the expired record: before it deletes
\* anything it calls retrieveBrainData, one call deeper (depths beyond
\* MaxDepth are counted as MaxDepth)
ExpiryDelete ==
  \E w \in Workers :
     /\ inflight[w].pc = "expired"
     /\ Awaited(w, [inflight[w] EXCEPT
                      !.pc = "retrieve",
                      !.depth = IF @ < MaxDepth THEN @ + 1 ELSE MaxDepth])
     /\ UNCHANGED <<store, typeIndex, catIndex>>

\* deleteBrainData after its retrieveBrainData returned: the delete of the
\* record and the index cleanup; it returns to the retrieveBrainData that
\* called it, which returns null
ExpiryCleanup ==
  \E w \in Workers :
     /\ inflight[w].pc = "cleanup"
     /\ store' = DeleteFound(World, inflight[w].id, inflight[w].entity).store
     /\ typeIndex'
          = DeleteFound(World, inflight[w].id, inflight[w].entity).typeIndex
     /\ catIndex'
          = DeleteFound(World, inflight[w].id, inflight[w].entity).catIndex
     /\ Awaited(w, RetrieveReturned([inflight[w] EXCEPT !.depth = @ - 1],
                                    <<>>))

ExpiryEntities == {ValidEntity, ExpiringEntity}

InitExpiry == InitWith({FALSE})

NextExpiry ==
  \/ StoreWhileQuiet(ExpiryEntities)
  \/ KvExpires
  \/ GetStart({"a"})
  \/ ExpiryRetrieve
  \/ ExpiryDelete
  \/ ExpiryCleanup
  \/ Tick

\* a call in progress goes on: every awaited read or write resolves
SpecExpiry ==
  /\ InitExpiry
  /\ [][NextExpiry]_vars
  /\ WF_vars(ExpiryRetrieve \/ ExpiryDelete \/ ExpiryCleanup)

\* C21: a getById on a stored entity whose expiresAt is in the past
\* terminates: it returns absent, and then the record and its index
\* entries are gone.
C21_ExpiredGetTerminatesAndCleans ==
  \A w \in Workers :
     (/\ inflight[w].pc = "retrieve"
      /\ inflight[w].depth = 0
      /\ inflight[w].id \in DOMAIN store
      /\ IsExpired(store[inflight[w].id], now))
       ~> (/\ inflight[w].pc = "returned"
           /\ inflight[w].entity = <<>>
           /\ inflight[w].id \notin DOMAIN store
           /\ UnlistedIn(World, inflight[w].id))

----------------------------------------------------------------------------
(* SpecRace: two requests that each run one create, interleaved at every   *)
(* key-value operation of their two storeBrainData calls (the store of the *)
(* enriched entity, then the store of the indexed entity in indexContent). *)
(* No remote index is configured.  A request ends with pc "returned"       *)
(* (success:true) or "failed" (success:false).                             *)

\* Faulty variant of CreateStore: the id is appended to the type index
\* first, the record is not yet written.
CreateStore_IndexesFirst(inputs) ==
  \E w \in Workers, data \in inputs :
     /\ inflight[w].pc = "idle"
     /\ data.id # "" /\ data.content # <<>> /\ data.type # ""
     /\ typeIndex' = Put(typeIndex, data.type,
                         IndexAfter(GetIndex(typeIndex, data.type), data.id,
                                    "add"))
     /\ Awaited(w, [IdleCall EXCEPT !.pc = "typeGet", !.id = data.id,
                                    !.entity = <<EnrichCreated(data)>>,
                                    !.operation = "add"])
     /\ UNCHANGED <<store, catIndex>>

\* create(data) of a valid entity: the put of the enriched entity
CreateStore(inputs) ==
  \E w \in Workers, data \in inputs :
     /\ inflight[w].pc = "idle"
     /\ data.id # "" /\ data.content # <<>> /\ data.type # ""
     /\ store' = Put(store, data.id, EnrichCreated(data))
     /\ Awaited(w, [IdleCall EXCEPT !.pc = "typeGet", !.id = data.id,
                                    !.entity = <<EnrichCreated(data)>>,
                                    !.operation = "add"])
     /\ UNCHANGED <<typeIndex, catIndex>>

\* indexContent after the first store: the embedding call, which may
\* fail, and the put of the indexed entity
CreateIndex(outcomes) ==
  \E w \in Workers, embedOk \in outcomes :
     /\ inflight[w].pc = "done"
     /\ inflight[w].entity[1].metadata.indexed = <<FALSE>>
     /\ store' = IF embedOk
                 THEN Put(store, inflight[w].id,
                          IndexedData(inflight[w].entity[1],
                                      ChunkText(inflight[w].entity[1].content,
                                                ChunkMaxLength)))
                 ELSE store
     /\ Awaited(w,
          IF embedOk
          THEN [inflight[w] EXCEPT
                  !.pc = "typeGet",
                  !.entity = <<IndexedData(@[1], ChunkText(@[1].content,
                                                           ChunkMaxLength))>>]
          ELSE [inflight[w] EXCEPT !.pc = "failed"])
     /\ UNCHANGED <<typeIndex, catIndex>>

\* create after indexContent: clearRelatedCaches and the success result
CreateReturn ==
  \E w \in Workers :
     /\ inflight[w].pc = "done"
     /\ inflight[w].entity[1].metadata.indexed = <<TRUE>>
     /\ cache' = ClearRelatedCaches(cache, inflight[w].entity[1].type,
                                    inflight[w].entity[1].metadata.category)
     /\ inflight' = [inflight EXCEPT ![w].pc = "returned"]
     /\ UNCHANGED <<store, typeIndex, catIndex, remote, pinecone, now, last>>

RaceEntities ==
  {ValidEntity,
   [ValidEntity EXCEPT !.id = "b", !.content = ContentB],
   [ValidEntity EXCEPT !.id = "b", !.content = ContentB,
                       !.metadata.category = <<"k">>]}

InitRace == InitWith({FALSE})

NextRace ==
  \/ CreateStore(RaceEntities)
  \/ TypeIndexGet
  \/ TypeIndexPut
  \/ CategoryIndexGet
  \/ CategoryIndexPut
  \/ CreateIndex(BOOLEAN)
  \/ CreateReturn

SpecRace == InitRace /\ [][NextRace]_vars

\* both requests returned success from creates of different ids
BothCreated ==
  /\ \A w \in Workers : inflight[w].pc = "returned"
  /\ inflight["w1"].id # inflight["w2"].id

\* C22: whatever the interleaving of two creates on different ids, once
\* both have returned success, getById finds each entity, under its id
\* and with the content its caller supplied.
C22_NoRecordLostToRace ==
  BothCreated
    => \A w \in Workers :
          /\ GetByIdOp(World, inflight[w].id).ok
          /\ GetByIdOp(World, inflight[w].id).data[1].id = inflight[w].id
          /\ GetByIdOp(World, inflight[w].id).data[1].content
               = inflight[w].entity[1].content

\* both creates returned success although each wrote its record and read
\* the type list between the steps of the other: the list lost an id,
\* the records did not
C22_Witness ==
  /\ BothCreated
  /\ Len(GetIndex(typeIndex, "note")) = 1
  /\ store["a"].content = ContentA
  /\ store["b"].content = ContentB

\* the request w writes the type index list in this step
WritesTypeList(w) ==
  /\ inflight[w].pc = "typePut"
  /\ inflight'[w].pc # "typePut"

\* C23: the update of a type index list is a read and a later write, not
\* one atomic step: the list a request writes is the list it read, with
\* its id appended if that list did not hold it, whatever the list holds
\* by the time of the write.  (That two creates can so lose an id of the
\* list is the reachable state C23_Witness.)
C23_IndexWriteUsesListRead ==
  [][\A w \in Workers :
       WritesTypeList(w)
         => typeIndex'[inflight[w].entity[1].type]
              = IF Includes(inflight[w].ids, inflight[w].id)
                THEN inflight[w].ids
                ELSE Append(inflight[w].ids, inflight[w].id)]_vars

\* the lost index update: two creates of the type note, of "a" and of
\* "b", both returned success and both records are stored, yet the type
\* list holds "b" alone
C23_Witness ==
  /\ inflight["w1"].pc = "returned"
  /\ inflight["w2"].pc = "returned"
  /\ inflight["w1"].id = "a"
  /\ inflight["w2"].id = "b"
  /\ DOMAIN store = {"a", "b"}
  /\ store["a"].type = "note"
  /\ store["b"].type = "note"
  /\ GetIndex(typeIndex, "note") = <<"b">>

----------------------------------------------------------------------------
(* bulkCreate, bulkUpdate and bulkDelete: a loop over the items that       *)
(* awaits the single-item method and then a 5 ms timer.  The timer only    *)
(* lets time pass; the three methods read no clock, so the loop is         *)
(* modelled without it.  Every item of a call meets the same provider      *)
(* budget and the same remote outcomes.  A bulk result is [W, results],    *)
(* results holding [ok, data, embeds] for each item.                       *)

ItemResult(r) == [ok |-> r.ok, data |-> r.data, embeds |-> r.embeds]

RECURSIVE BulkCreateFrom(_, _, _, _, _, _)
RECURSIVE BulkUpdateFrom(_, _, _, _, _, _, _)
RECURSIVE BulkDeleteFrom(_, _, _, _, _)

\* Faulty variant of BulkCreatePushed: the loop ends at the first item
\* that fails.
BulkCreatePushed_StopsAtFailure(r, items, i, results, budget, upOk) ==
  IF ~r.ok THEN [W |-> r.W, results |-> Append(results, ItemResult(r))]
  ELSE BulkCreateFrom(r.W, items, i + 1, Append(results, ItemResult(r)),
                      budget, upOk)

\* results.push(await this.create(item)), then the next item
BulkCreatePushed(r, items, i, results, budget, upOk) ==
  BulkCreateFrom(r.W, items, i + 1, Append(results, ItemResult(r)), budget,
                 upOk)

BulkCreateFrom(W, items, i, results, budget, upOk) ==
  IF i > Len(items) THEN [W |-> W, results |-> results]
  ELSE BulkCreatePushed(CreateOp(W, items[i], budget, upOk), items, i,
                        results, budget, upOk)

BulkCreateOp(W, items, budget, upOk) ==
  BulkCreateFrom(W, items, 1, <<>>, budget, upOk)

BulkUpdatePushed(r, updates, i, results, budget, delOk, upOk) ==
  BulkUpdateFrom(r.W, updates, i + 1, Append(results, ItemResult(r)), budget,
                 delOk, upOk)

BulkUpdateFrom(W, updates, i, results, budget, delOk, upOk) ==
  IF i > Len(updates) THEN [W |-> W, results |-> results]
  ELSE BulkUpdatePushed(UpdateOp(W, updates[i].id, updates[i].updates,
                                 budget, delOk, upOk),
                        updates, i, results, budget, delOk, upOk)

BulkUpdateOp(W, updates, budget, delOk, upOk) ==
  BulkUpdateFrom(W, updates, 1, <<>>, budget, delOk, upOk)

BulkDeletePushed(r, ids, i, results, delOk) ==
  BulkDeleteFrom(r.W, ids, i + 1, Append(results, ItemResult(r)), delOk)

BulkDeleteFrom(W, ids, i, results, delOk) ==
  IF i > Len(ids) THEN [W |-> W, results |-> results]
  ELSE BulkDeletePushed(DeleteOp(W, ids[i], delOk), ids, i, results, delOk)

BulkDeleteOp(W, ids, delOk) == BulkDeleteFrom(W, ids, 1, <<>>, delOk)

RECURSIVE SumEmbeds(_, _)
SumEmbeds(results, i) ==
  IF i > Len(results) THEN 0 ELSE results[i].embeds + SumEmbeds(results, i + 1)

\* every sequence of at most n elements of S
RECURSIVE SeqsUpTo(_, _)
SeqsUpTo(S, n) ==
  IF n = 0 THEN {<<>>}
  ELSE SeqsUpTo(S, n - 1)
         \cup {Append(q, x) : q \in {p \in SeqsUpTo(S, n - 1) : Len(p) = n - 1},
                              x \in S}

BulkReturned(r, op) ==
  /\ Becomes(r.W)
  /\ last' = [op |-> op, id |-> "", ok |-> TRUE, res |-> r.results,
              arg |-> <<>>, key |-> <<>>, at |-> now,
              embeds |-> SumEmbeds(r.results, 1), again |-> last.op = op]

BulkCreate(inputs, budgets, outcomes) ==
  \E items \in inputs, budget \in budgets, upOk \in outcomes :
     BulkReturned(BulkCreateOp(World, items, budget, upOk), "bulkCreate")

\* the version stays within the bound of the model
VersionsBounded(W) ==
  \A id \in DOMAIN W.store : VersionOr1(W.store[id]) <= MaxVersion

BulkUpdate(inputs, budgets, outcomes) ==
  \E updates \in inputs, budget \in budgets, delOk \in outcomes,
     upOk \in outcomes :
     /\ VersionsBounded(BulkUpdateOp(World, updates, budget, delOk, upOk).W)
     /\ BulkReturned(BulkUpdateOp(World, updates, budget, delOk, upOk),
                     "bulkUpdate")

BulkDelete(inputs, outcomes) ==
  \E ids \in inputs, delOk \in outcomes :
     BulkReturned(BulkDeleteOp(World, ids, delOk), "bulkDelete")

----------------------------------------------------------------------------
(* SpecBulk: the three bulk methods on lists of at most MaxItems items,    *)
(* among them items that fail: a create without content, an update of an   *)
(* id that is not stored.  No remote index is configured.                  *)

BulkCreateItems ==
  {ValidEntity,
   [ValidEntity EXCEPT !.id = "b", !.content = ContentB],
   [ValidEntity EXCEPT !.content = EmptyText]}

BulkUpdateItems ==
  {[id |-> "a", updates |-> [NoPatch EXCEPT !.content = <<ContentB>>]],
   [id |-> "b", updates |-> [NoPatch EXCEPT !.type = <<"doc">>]]}

BulkCreateInputs == SeqsUpTo(BulkCreateItems, MaxItems)
BulkUpdateInputs == SeqsUpTo(BulkUpdateItems, MaxItems)
BulkDeleteInputs == SeqsUpTo(Ids, MaxItems)

InitBulk == InitWith({FALSE})

NextBulk ==
  \/ BulkCreate(BulkCreateInputs, Answering, {TRUE})
  \/ BulkUpdate(BulkUpdateInputs, Answering, {TRUE})
  \/ BulkDelete(BulkDeleteInputs, {TRUE})

SpecBulk == InitBulk /\ [][NextBulk]_vars

\* all items but the last
Front(items) == SubSeq(items, 1, Len(items) - 1)

\* bulkCreate(items) returns one result per item, the i-th being what
\* create(items[i]) returns after the items before it were created, and
\* leaves what the last create leaves
CreatesInOrder(items, budget) ==
  /\ Len(BulkCreateOp(World, items, budget, TRUE).results) = Len(items)
  /\ \A i \in 1..Len(items) :
       BulkCreateOp(World, items, budget, TRUE).results[i]
         = ItemResult(CreateOp(BulkCreateOp(World, SubSeq(items, 1, i - 1),
                                            budget, TRUE).W,
                               items[i], budget, TRUE))
  /\ items # <<>>
       => BulkCreateOp(World, items, budget, TRUE).W
            = CreateOp(BulkCreateOp(World, Front(items), budget, TRUE).W,
                       items[Len(items)], budget, TRUE).W

UpdatesInOrder(updates, budget) ==
  /\ Len(BulkUpdateOp(World, updates, budget, TRUE, TRUE).results)
       = Len(updates)
  /\ \A i \in 1..Len(updates) :
       BulkUpdateOp(World, updates, budget, TRUE, TRUE).results[i]
         = ItemResult(UpdateOp(BulkUpdateOp(World, SubSeq(updates, 1, i - 1),
                                            budget, TRUE, TRUE).W,
                               updates[i].id, updates[i].updates, budget,
                               TRUE, TRUE))
  /\ updates # <<>>
       => BulkUpdateOp(World, updates, budget, TRUE, TRUE).W
            = UpdateOp(BulkUpdateOp(World, Front(updates), budget, TRUE,
                                    TRUE).W,
                       updates[Len(updates)].id,
                       updates[Len(updates)].updates, budget, TRUE, TRUE).W

DeletesInOrder(ids) ==
  /\ Len(BulkDeleteOp(World, ids, TRUE).results) = Len(ids)
  /\ \A i \in 1..Len(ids) :
       BulkDeleteOp(World, ids, TRUE).results[i]
         = ItemResult(DeleteOp(BulkDeleteOp(World, SubSeq(ids, 1, i - 1),
                                            TRUE).W,
                               ids[i], TRUE))
  /\ ids # <<>>
       => BulkDeleteOp(World, ids, TRUE).W
            = DeleteOp(BulkDeleteOp(World, Front(ids), TRUE).W,
                       ids[Len(ids)], TRUE).W

\* C24: in every reachable state, bulkCreate, bulkUpdate and bulkDelete
\* return exactly one result per item, in input order, each the result of
\* the single-item method applied after the items before it; an item
\* that fails does not keep the later items from being processed.
C24_BulkAppliesItemsInOrder ==
  /\ \A items \in BulkCreateInputs, budget \in Answering :
       CreatesInOrder(items, budget)
  /\ \A updates \in BulkUpdateInputs, budget \in Answering :
       UpdatesInOrder(updates, budget)
  /\ \A ids \in BulkDeleteInputs : DeletesInOrder(ids)

\* a bulkCreate of two items returned a failure for the first, which
\* made no embedding call, and a success with the entity "b" for the
\* second, and "b" is stored
C24_Witness ==
  /\ last.op = "bulkCreate"
  /\ Len(last.res) = 2
  /\ ~last.res[1].ok
  /\ last.res[1].embeds = 0
  /\ last.res[2].ok
  /\ last.res[2].data[1].id = "b"
  /\ "b" \in DOMAIN store

----------------------------------------------------------------------------
(* SpecChunk: chunkText on every text of at most MaxTextLen characters     *)
(* over a letter, a sentence terminal and a blank, with every maxLength    *)
(* from 1 to MaxChunkLength.                                               *)

ChunkAlphabet == {"a", ".", " "}

ChunkTexts == SeqsUpTo(ChunkAlphabet, MaxTextLen)

\* chunkText(text, maxLength) is called and returns its chunks
ChunkCall(texts, maxLengths) ==
  \E text \in texts, maxLength \in maxLengths :
     /\ last' = [op |-> "chunkText", id |-> "", ok |-> TRUE,
                 res |-> ChunkText(text, maxLength),
                 arg |-> <<text, maxLength>>, key |-> <<>>, at |-> now,
                 embeds |-> 0, again |-> FALSE]
     /\ UNCHANGED <<store, typeIndex, catIndex, cache, remote, pinecone, now,
                    inflight>>

InitChunk == InitWith({FALSE})

NextChunk == ChunkCall(ChunkTexts, 1..MaxChunkLength)

SpecChunk == InitChunk /\ [][NextChunk]_vars

\* C25: for every text and every maxLength >= 1, chunkText returns at
\* least one chunk, also for a text longer than maxLength made of
\* sentence terminals and blanks only.
C25_ChunkTextNeverEmpty ==
  last.op = "chunkText" => Len(last.res) >= 1

\* the sentence s alone is longer than maxLength and makes up the chunk
OversizedSentence(chunk, text, maxLength) ==
  \E i \in 1..Len(SplitSentences(text)) :
     /\ Len(Trim(SplitSentences(text)[i])) > maxLength
     /\ chunk = Trim(SplitSentences(text)[i]) \o <<".">>

\* C26: for every text longer than maxLength, every chunk returned is at
\* most maxLength characters long, the added separators and the final
\* terminal counted, unless it is one sentence that alone is longer than
\* maxLength.
C26_ChunksWithinMaxLength ==
  (last.op = "chunkText" /\ Len(last.arg[1]) > last.arg[2])
    => \A i \in 1..Len(last.res) :
          \/ Len(last.res[i]) <= last.arg[2]
          \/ OversizedSentence(last.res[i], last.arg[1], last.arg[2])

----------------------------------------------------------------------------
(* SpecGather: brute-force semantic searches whose options name ids, a     *)
(* type, a category or a type and a category, over two entities of one     *)
(* type of which one has a category.                                       *)

GatherCreates ==
  {ValidEntity,
   [ValidEntity EXCEPT !.id = "b", !.content = ContentB,
                       !.metadata.category = <<"k">>]}

GatherQueries ==
  {[isString |-> TRUE, text |-> Query1, id |-> <<>>, type |-> <<>>,
    searchTerm |-> <<>>]}

GatherOptions ==
  {[NoOptions EXCEPT !.type = <<"note">>, !.threshold = <<0>>],
   [NoOptions EXCEPT !.category = <<"k">>, !.threshold = <<0>>],
   [NoOptions EXCEPT !.type = <<"note">>, !.category = <<"k">>,
                     !.threshold = <<0>>],
   [NoOptions EXCEPT !.ids = <<(<<"a">>)>>, !.type = <<"note">>,
                     !.category = <<"k">>, !.threshold = <<0>>]}

InitGather == InitWith({FALSE})

NextGather ==
  \/ Create(GatherCreates, Answering, {TRUE})
  \/ Delete(Ids, {TRUE})
  \/ /\ Read(GatherQueries, GatherOptions, Answering, {TRUE})
     /\ Cardinality(DOMAIN cache') <= MaxCached

SpecGather == InitGather /\ [][NextGather]_vars

\* C27: a brute-force semantic search whose options carry a type and a
\* category and no ids gathers its candidates by the type: it finds what
\* the same search with the type alone finds.
C27_TypeBeforeCategory ==
  [][(/\ CallStep
      /\ last'.op = "read"
      /\ last'.res[1].strategy = "semantic_search_kv"
      /\ last'.key[1].opts.ids = <<>>
      /\ Truthy(last'.key[1].opts.type)
      /\ Truthy(last'.key[1].opts.category))
       => /\ GetEntities(World, last'.key[1].opts)
               = ListByType(World, last'.key[1].opts.type[1],
                            ListDefaultLimit, 0)
          /\ last'.res[1].sources
               = SemanticSearch(World, last'.key[1].text,
                                [last'.key[1].opts EXCEPT !.category = <<>>],
                                CHOOSE budget \in Answering : TRUE, TRUE,
                                now).res[1].sources]_vars

----------------------------------------------------------------------------
(* StorageService.searchEntities.  Filters are [type, category, limit];    *)
(* the filters on userId, status, tags, dateRange and textSearch read      *)
(* metadata that is not modelled and are never given.  The result is       *)
(* [results, fetched]: the entities returned and the number of             *)
(* retrieveBrainData calls the loop made.                                  *)

NoFilters == [type |-> <<>>, category |-> <<>>, limit |-> <<>>]

\* filters.limit || 100
FilterLimit(filters) ==
  IF filters.limit # <<>> /\ filters.limit[1] # 0 THEN filters.limit[1]
  ELSE ListDefaultLimit

Candidates(S, filters) ==
  IF Truthy(filters.type) THEN GetIndex(S.typeIndex, filters.type[1])
  ELSE IF Truthy(filters.category)
  THEN GetIndex(S.catIndex, filters.category[1])
  ELSE GetAllBrainEntityIds(S)

Min(a, b) == IF a <= b THEN a ELSE b

RECURSIVE ScanFrom(_, _, _, _, _, _, _, _)

\* the body of the loop for the candidate i, whose record was fetched
Scanned(S, candidates, i, entity, processed, results, fetched, filters, maxToProcess) ==
  IF entity = <<>>
  THEN ScanFrom(S, candidates, i + 1, processed, results, fetched, filters,
                maxToProcess)
  ELSE IF Truthy(filters.category)
          /\ entity[1].metadata.category # filters.category
  THEN ScanFrom(S, candidates, i + 1, processed + 1, results, fetched,
                filters, maxToProcess)
  ELSE IF Len(results) + 1 >= FilterLimit(filters)
  THEN [results |-> results \o entity, fetched |-> fetched]
  ELSE ScanFrom(S, candidates, i + 1, processed + 1, results \o entity,
                fetched, filters, maxToProcess)

ScanFrom(S, candidates, i, processed, results, fetched, filters, maxToProcess) ==
  IF i > Len(candidates) \/ processed >= maxToProcess
  THEN [results |-> results, fetched |-> fetched]
  ELSE Scanned(S, candidates, i, RetrieveBrainData(S, candidates[i]),
               processed, results, fetched + 1, filters, maxToProcess)

SearchFrom(S, candidates, filters) ==
  ScanFrom(S, candidates, 1, 0, <<>>, 0, filters,
           Min(Len(candidates), FilterLimit(filters) * 3))

SearchEntities(S, filters) == SearchFrom(S, Candidates(S, filters), filters)

----------------------------------------------------------------------------
(* SpecScan: searchEntities over a store of four ids whose type list can   *)
(* hold an id without a record: an entity stored under a second type and   *)
(* then deleted stays in the list of its first type.                       *)

ScanIds == {"a", "b", "c", "d"}

ScanEntities ==
  {[ValidEntity EXCEPT !.id = id] : id \in ScanIds}
    \cup {[ValidEntity EXCEPT !.type = "doc"]}

ScanFilters ==
  {[NoFilters EXCEPT !.type = <<"note">>, !.category = <<"k">>,
                     !.limit = <<1>>],
   [NoFilters EXCEPT !.limit = <<1>>]}

\* deleteBrainData(id) while no request is in a call
DeleteWhileQuiet(ids) ==
  \E id \in ids :
     /\ \A w \in Workers : Free(w)
     /\ Becomes(DeleteBrainData(World, id))
     /\ UNCHANGED last

\* searchEntities(filters) is called and returns
SearchCall(filterSet) ==
  \E filters \in filterSet :
     /\ last' = [op |-> "searchEntities", id |-> "", ok |-> TRUE,
                 res |-> <<SearchEntities(World, filters)>>,
                 arg |-> <<filters>>, key |-> <<>>, at |-> now,
                 embeds |-> 0, again |-> FALSE]
     /\ UNCHANGED <<store, typeIndex, catIndex, cache, remote, pinecone, now,
                    inflight>>

InitScan == InitWith({FALSE})

NextScan ==
  \/ StoreWhileQuiet(ScanEntities)
  \/ DeleteWhileQuiet(ScanIds)
  \/ SearchCall(ScanFilters)

SpecScan == InitScan /\ [][NextScan]_vars

\* C28: searchEntities returns at most limit entities (100 without a
\* limit) and fetches at most 3 * limit candidate ids from the store,
\* also when the index it reads holds ids whose records are absent.
C28_ScanWithinBudget ==
  last.op = "searchEntities"
    => /\ Len(last.res[1].results) <= FilterLimit(last.arg[1])
       /\ last.res[1].fetched <= 3 * FilterLimit(last.arg[1])

----------------------------------------------------------------------------
(* SpecReindex: create, update and delete with a remote index, on a        *)
(* content of two chunks (two sentences that together exceed the default   *)
(* chunk length) and a content of one chunk; the remote delete-by-filter   *)
(* and the upsert may fail, and in an update the embedding provider too.   *)

\* 201 letters, a full stop, 200 letters
ContentLong ==
  [i \in 1..(ChunkMaxLength + 2) |->
     IF i = (ChunkMaxLength \div 2) + 2 THEN "." ELSE "a"]

ReindexCreates ==
  {[ValidEntity EXCEPT !.id = id, !.content = content] :
     id \in Ids, content \in {ContentLong, ContentB}}

ReindexUpdates ==
  {[id |-> "a", updates |-> patch] :
     patch \in {[NoPatch EXCEPT !.content = <<ContentLong>>],
                [NoPatch EXCEPT !.content = <<ContentB>>],
                [NoPatch EXCEPT !.type = <<"doc">>],
                NoPatch}}

InitReindex == InitWith({TRUE})

NextReindex ==
  \/ Create(ReindexCreates, Answering, {TRUE})
  \/ Update(ReindexUpdates, Budgets, BOOLEAN)
  \/ Delete(Ids, BOOLEAN)

SpecReindex == InitReindex /\ [][NextReindex]_vars

\* the ids of the vectors of R whose originalId is id
VectorsOf(R, id) == {v \in DOMAIN R : R[v].metadata.originalId = id}

\* the vectors of id in R are exactly the chunks, numbered from 0
ExactlyTheChunks(R, id, chunks) ==
  /\ VectorsOf(R, id) = {<<id, "_chunk_", i - 1>> : i \in 1..Len(chunks)}
  /\ \A i \in 1..Len(chunks) :
       /\ R[<<id, "_chunk_", i - 1>>].metadata.content = chunks[i]
       /\ R[<<id, "_chunk_", i - 1>>].metadata.chunkIndex = i - 1
       /\ R[<<id, "_chunk_", i - 1>>].metadata.totalChunks = Len(chunks)

\* C29: with a remote index, after an update that changes the content
\* has succeeded, the remote vectors whose originalId is the id are
\* exactly the chunks of the new content, id_chunk_0 to id_chunk_(n-1),
\* each with its chunkIndex and totalChunks n; no vector of the previous
\* content remains.
C29_RemoteHoldsNewChunksOnly ==
  [][(/\ CallStep
      /\ pinecone
      /\ last'.op = "update"
      /\ last'.ok
      /\ ContentChanged(store[last'.id], last'.arg[1]))
       => ExactlyTheChunks(remote', last'.id,
                           ChunkText(store'[last'.id].content,
                                     ChunkMaxLength))]_vars

\* the patch carries no content, or the content already stored
KeepsContent(existing, updates) ==
  updates.content \in {<<>>, <<existing.content>>}

\* C30: update re-embeds and re-indexes only when the content changed: an
\* update of a stored entity whose patch has no content, or the content
\* already stored, succeeds whatever the embedding provider and the remote
\* index would answer (it calls neither: no embedding call, the remote
\* index unchanged), leaves the stored content and the stored embedding
\* unchanged, and stores the previous version + 1.
C30_UnchangedContentSkipsIndexing ==
  [][(/\ CallStep
      /\ last'.op = "update"
      /\ last'.id \in DOMAIN store
      /\ KeepsContent(store[last'.id], last'.arg[1]))
       => /\ last'.ok
          /\ last'.embeds = 0
          /\ remote' = remote
          /\ store'[last'.id].content = store[last'.id].content
          /\ store'[last'.id].metadata.embedding
               = store[last'.id].metadata.embedding
          /\ store'[last'.id].metadata.version
               = <<VersionOr1(store[last'.id]) + 1>>]_vars

\* a successful update whose patch carries a content made no embedding
\* call (the content was the stored one), on an indexed entity with
\* vectors in the remote index
C30_Witness ==
  /\ pinecone
  /\ last.op = "update"
  /\ last.ok
  /\ last.arg[1].content # <<>>
  /\ last.embeds = 0
  /\ store[last.id].metadata.embedding # <<>>
  /\ store[last.id].metadata.version = <<2>>
  /\ VectorsOf(remote, last.id) # {}

----------------------------------------------------------------------------
(* SpecTypeFilter: reads by type on a store that holds up to one entity    *)
(* more than the default limit, all of type note, created one after the    *)
(* other; two of them may be deleted.  No remote index is configured.      *)

\* the n-th entity created
TypeFilterEntity(n) == [ValidEntity EXCEPT !.id = KeyOrder[n]]

\* the agent after create was called for the first n entities
Populated(n) ==
  BulkCreateOp([store |-> EmptyMap, typeIndex |-> EmptyMap,
                catIndex |-> EmptyMap, cache |-> EmptyMap,
                remote |-> EmptyMap, pinecone |-> FALSE],
               [i \in 1..n |-> TypeFilterEntity(i)],
               CHOOSE budget \in Answering : TRUE, TRUE).W

TypeFilterQueries ==
  {[isString |-> FALSE, text |-> <<>>, id |-> id, type |-> <<type>>,
    searchTerm |-> <<>>] : id \in {<<>>, <<"a">>}, type \in {"note", "doc"}}

TypeFilterOptions ==
  {NoOptions, [NoOptions EXCEPT !.limit = <<1>>],
   [NoOptions EXCEPT !.limit = <<0>>]}

InitTypeFilter ==
  \E n \in 0..(DefaultLimit + 1) :
     /\ store = Populated(n).store
     /\ typeIndex = Populated(n).typeIndex
     /\ catIndex = Populated(n).catIndex
     /\ cache = EmptyMap
     /\ remote = EmptyMap
     /\ pinecone = FALSE
     /\ now = 0
     /\ inflight = [w \in Workers |-> IdleCall]
     /\ last = [op |-> "init", id |-> "", ok |-> TRUE, res |-> <<>>,
                arg |-> <<>>, key |-> <<>>, at |-> 0, embeds |-> 0,
                again |-> FALSE]

NextTypeFilter ==
  \/ Delete({"a", "b"}, {TRUE})
  \/ /\ Read(TypeFilterQueries, TypeFilterOptions, Answering, {TRUE})
     /\ Cardinality(DOMAIN cache') <= MaxCached

SpecTypeFilter == InitTypeFilter /\ [][NextTypeFilter]_vars

\* what read(query, options) returns now
ReadNow(query, options) ==
  ReadOp(World, query, options, CHOOSE budget \in Answering : TRUE, TRUE,
         now).res

\* the read gets past the direct lookup: the query has a type, and no id
\* of a stored entity
TypeFilterTried(query) ==
  /\ Truthy(query.type)
  /\ DirectLookup(World, query) = <<>>

\* the result is a type-filter answer of at least one and at most limit
\* sources, all with score 0.9, at confidence 0.9
TypeFilterAnswer(res, limit) ==
  /\ res.strategy = "type_filter"
  /\ Len(res.sources) >= 1
  /\ Len(res.sources) <= limit
  /\ res.confidence = TypeFilterScore
  /\ \A i \in 1..Len(res.sources) : res.sources[i].score = TypeFilterScore

\* the result comes from the semantic search
SemanticAnswer(res) ==
  res.strategy \in {"semantic_search_kv", "cached_semantic"}

----------------------------------------------------------------------------
(* SpecBatch: one call of PineconeService.batchUpsert, one step for every  *)
(* await: the upsert of a batch, which may fail, and the pause between two *)
(* batches.  The call frame is                                             *)
(*   vectors, batchSize   the arguments                                    *)
(*   i, results           the loop index and the responses pushed          *)
(*   sent                 the batches handed to upsert so far              *)
(* and pc is "loop" at the loop test, "pause" in the delay, "returned"     *)
(* after the return and "failed" after the error of upsert was thrown.     *)

BatchVectors ==
  SeqsUpTo({ChunkVectors(ValidEntity, <<ContentA, ContentB>>)[n] :
              n \in 1..2},
           MaxVectors)

BatchSizes == 1..(MaxVectors + 1)

\* Faulty variant of BatchOf: the slice ends one vector late, so the
\* next batch starts with a vector already sent.
BatchOf_OneTooMany(vectors, i, batchSize) ==
  Slice(vectors, i, i + batchSize + 1)

\* vectors.slice(i, i + batchSize)
BatchOf(vectors, i, batchSize) == Slice(vectors, i, i + batchSize)

BatchStart(inputs, sizes) ==
  \E vectors \in inputs, batchSize \in sizes :
     /\ inflight["w1"].pc = "idle"
     /\ inflight' = [inflight EXCEPT !["w1"] =
                       [pc |-> "loop", vectors |-> vectors,
                        batchSize |-> batchSize, i |-> 0, results |-> <<>>,
                        sent |-> <<>>]]
     /\ UNCHANGED <<store, typeIndex, catIndex, cache, remote, pinecone, now,
                    last>>

\* the frame after upsert answered for the batch: the response is pushed,
\* then the delay if vectors are left, else the next loop test
BatchPushed(call, batch) ==
  IF call.i + call.batchSize < Len(call.vectors)
  THEN [call EXCEPT !.pc = "pause", !.sent = Append(@, batch),
                    !.results = Append(@, Len(batch))]
  ELSE [call EXCEPT !.pc = "loop", !.sent = Append(@, batch),
                    !.results = Append(@, Len(batch)),
                    !.i = @ + call.batchSize]

\* the upsert of the batch at i
BatchSent(call, batch, ok) ==
  /\ inflight' = [inflight EXCEPT !["w1"] =
                    IF ok THEN BatchPushed(call, batch)
                    ELSE [call EXCEPT !.pc = "failed",
                                      !.sent = Append(@, batch)]]
  /\ remote' = IF ok THEN Upsert(remote, batch, 1) ELSE remote

BatchSend(outcomes) ==
  \E ok \in outcomes :
     /\ inflight["w1"].pc = "loop"
     /\ inflight["w1"].i < Len(inflight["w1"].vectors)
     /\ BatchSent(inflight["w1"],
                  BatchOf(inflight["w1"].vectors, inflight["w1"].i,
                          inflight["w1"].batchSize), ok)
     /\ UNCHANGED <<store, typeIndex, catIndex, cache, pinecone, now, last>>

\* the delay is over: i += batchSize
BatchResume ==
  /\ inflight["w1"].pc = "pause"
  /\ inflight' = [inflight EXCEPT !["w1"].pc = "loop",
                                  !["w1"].i = @ + inflight["w1"].batchSize]
  /\ UNCHANGED <<store, typeIndex, catIndex, cache, remote, pinecone, now,
                 last>>

BatchReturn ==
  /\ inflight["w1"].pc = "loop"
  /\ inflight["w1"].i >= Len(inflight["w1"].vectors)
  /\ inflight' = [inflight EXCEPT !["w1"].pc = "returned"]
  /\ UNCHANGED <<store, typeIndex, catIndex, cache, remote, pinecone, now,
                 last>>

InitBatch == InitWith({TRUE})

NextBatch ==
  \/ BatchStart(BatchVectors, BatchSizes)
  \/ BatchSend(BOOLEAN)
  \/ BatchResume
  \/ BatchReturn

\* a call in progress goes on: every await resolves
SpecBatch ==
  /\ InitBatch
  /\ [][NextBatch]_vars
  /\ WF_vars(BatchSend(BOOLEAN) \/ BatchResume \/ BatchReturn)

\* the number of batches of n vectors
BatchCount(n, batchSize) == (n + batchSize - 1) \div batchSize

\* the k-th of the consecutive batches of the vectors
NthBatch(vectors, batchSize, k) ==
  SubSeq(vectors, (k - 1) * batchSize + 1,
         IF k * batchSize < Len(vectors) THEN k * batchSize
         ELSE Len(vectors))

\* the batches sent are the first consecutive batches of the vectors
SentInOrder(call) ==
  /\ Len(call.sent) <= BatchCount(Len(call.vectors), call.batchSize)
  /\ \A k \in 1..Len(call.sent) :
       /\ call.sent[k] = NthBatch(call.vectors, call.batchSize, k)
       /\ Len(call.sent[k]) >= 1
       /\ Len(call.sent[k]) <= call.batchSize

BatchRunning == inflight["w1"].pc \in {"loop", "pause"}

\* C32: batchUpsert with a batch size of at least 1 terminates; what it
\* has sent is at every moment the first consecutive batches of the
\* vectors, each of at most batchSize vectors, so every vector is sent
\* once and in input order; it returns only after all batches were sent
\* and answered; when the upsert of a batch fails the call fails with
\* that batch as the last one sent.
C32_BatchesInOrderUntilFailure ==
  /\ [](inflight["w1"].pc # "idle" => SentInOrder(inflight["w1"]))
  /\ [](inflight["w1"].pc = "returned"
         => /\ Len(inflight["w1"].sent)
                 = BatchCount(Len(inflight["w1"].vectors),
                              inflight["w1"].batchSize)
            /\ Len(inflight["w1"].results) = Len(inflight["w1"].sent))
  /\ [](inflight["w1"].pc = "failed"
         => Len(inflight["w1"].results) = Len(inflight["w1"].sent) - 1)
  /\ [][inflight["w1"].pc = "failed" => UNCHANGED <<inflight, remote>>]_vars
  /\ [][(BatchRunning /\ Len(inflight'["w1"].results)
                          = Len(inflight["w1"].results)
                      /\ inflight'["w1"].sent # inflight["w1"].sent)
          => inflight'["w1"].pc = "failed"]_vars
  /\ (BatchRunning ~> inflight["w1"].pc \in {"returned", "failed"})

\* three vectors were sent in batches of two: a full batch, the pause, and
\* a last batch of one
C32_Witness ==
  /\ inflight["w1"].pc = "returned"
  /\ Len(inflight["w1"].vectors) = 3
  /\ inflight["w1"].batchSize = 2
  /\ Len(inflight["w1"].sent) = 2
  /\ Len(inflight["w1"].sent[2]) = 1

----------------------------------------------------------------------------
\* C33: every id in the type index of T whose record is stored has type T,
\* and every id in the category index of K whose record is stored has
\* category K, so listByType(T) and a read by type T return only entities
\* of type T.
C33_IndexedUnderOwnTypeAndCategory ==
  /\ \A T \in DOMAIN typeIndex :
       /\ \A i \in 1..Len(typeIndex[T]) :
            typeIndex[T][i] \in DOMAIN store
              => store[typeIndex[T][i]].type = T
       /\ \A i \in 1..Len(ListByType(World, T, ListDefaultLimit, 0)) :
            ListByType(World, T, ListDefaultLimit, 0)[i].type = T
  /\ \A K \in DOMAIN catIndex :
       \A i \in 1..Len(catIndex[K]) :
          catIndex[K][i] \in DOMAIN store
            => store[catIndex[K][i]].metadata.category = <<K>>

----------------------------------------------------------------------------
(* SpecValidate: create with and without its required fields, and update  *)
(* with patches that set content or type, also to the empty string.  No    *)
(* remote index is configured.                                             *)

ValidateUpdates ==
  {[id |-> id, updates |-> patch] :
     id \in Ids,
     patch \in {[NoPatch EXCEPT !.content = <<ContentB>>],
                [NoPatch EXCEPT !.content = <<EmptyText>>],
                [NoPatch EXCEPT !.type = <<"doc">>],
                [NoPatch EXCEPT !.type = <<"">>]}}

InitValidate == InitWith({FALSE})

NextValidate ==
  \/ Create(FaultCreates, Budgets, {TRUE})
  \/ Update(ValidateUpdates, Budgets, {TRUE})

SpecValidate == InitValidate /\ [][NextValidate]_vars

\* C34: every record in the store has a non-empty id, content and type.
C34_StoredFieldsNonEmpty ==
  \A id \in DOMAIN store :
     /\ id # ""
     /\ store[id].id # ""
     /\ store[id].content # EmptyText
     /\ store[id].type # ""

----------------------------------------------------------------------------
\* C35: in every state between two calls, a stored entity with indexed =
\* true carries the embedding of the first chunk of the content it has
\* now, also after an update whose re-embedding failed.
C35_IndexedEmbeddingIsOfContent ==
  \A id \in DOMAIN store :
     store[id].metadata.indexed = <<TRUE>>
       => store[id].metadata.embedding
            = <<GenerateEmbedding(
                  FirstChunkOr(ChunkText(store[id].content, ChunkMaxLength),
                               store[id].content))>>

----------------------------------------------------------------------------
(* SpecBackfill: one brute-force semantic search, one step for the fetch   *)
(* of its candidates, one for every candidate of the backfill loop (the    *)
(* embedding call and the store of the enriched copy) and one for the      *)
(* scoring and the caching of the result; create, update and delete of     *)
(* other requests run between these steps.  The call frame holds the       *)
(* query, the options, the candidates as they were fetched, the loop       *)
(* index i and the enriched list.  An entity without an embedding is one   *)
(* whose create failed in the embedding provider.                          *)

BackfillCreates == {ValidEntity, [ValidEntity EXCEPT !.id = "b"]}

BackfillUpdates ==
  {[id |-> "a", updates |-> [NoPatch EXCEPT !.content = <<ContentB>>]]}

\* semanticSearch up to the fetch of the candidates (no cached result)
SearchGather(queries, optionSet) ==
  \E query \in queries, options \in optionSet :
     /\ inflight["w1"].pc = "idle"
     /\ CacheGet(cache, SemanticCacheKey(query, options), now).value = <<>>
     /\ inflight' = [inflight EXCEPT !["w1"] =
                       [pc |-> "backfill", query |-> query,
                        options |-> options,
                        candidates |-> GetEntities(World, options),
                        i |-> 1, enriched |-> <<>>, calls |-> 1]]
     /\ UNCHANGED <<store, typeIndex, catIndex, cache, remote, pinecone, now,
                    last>>

\* the loop body for the candidate c
SearchBackfilled(call, c) ==
  IF c.metadata.embedding # <<>>
  THEN /\ inflight' = [inflight EXCEPT !["w1"] =
                         [call EXCEPT !.i = @ + 1,
                                      !.enriched = Append(@, c)]]
       /\ UNCHANGED <<store, typeIndex, catIndex>>
  ELSE /\ inflight' = [inflight EXCEPT !["w1"] =
                         [call EXCEPT !.i = @ + 1,
                                      !.enriched =
                                         Append(@, BackfilledEntity(c)),
                                      !.calls = @ + 1]]
       /\ store' = StoreBrainData(World, BackfilledEntity(c)).store
       /\ typeIndex' = StoreBrainData(World, BackfilledEntity(c)).typeIndex
       /\ catIndex' = StoreBrainData(World, BackfilledEntity(c)).catIndex

SearchBackfill ==
  /\ inflight["w1"].pc = "backfill"
  /\ inflight["w1"].i <= Len(inflight["w1"].candidates)
  /\ SearchBackfilled(inflight["w1"],
                      inflight["w1"].candidates[inflight["w1"].i])
  /\ UNCHANGED <<cache, remote, pinecone, now, last>>

\* the result r of the scoring is cached and returned
SearchRanked(call, r) ==
  /\ cache' = r.W.cache
  /\ last' = [op |-> "read", id |-> "", ok |-> TRUE, res |-> r.res,
              arg |-> <<call.query>>,
              key |-> <<SemanticCacheKey(call.query, call.options)>>,
              at |-> now, embeds |-> r.embeds, again |-> FALSE]
  /\ inflight' = [inflight EXCEPT !["w1"].pc = "returned"]

SearchFinish ==
  /\ inflight["w1"].pc = "backfill"
  /\ inflight["w1"].i > Len(inflight["w1"].candidates)
  /\ SearchRanked(inflight["w1"],
                  KvRanked(World,
                           KvScored(inflight["w1"].enriched,
                                    GenerateEmbedding(inflight["w1"].query)),
                           inflight["w1"].query, inflight["w1"].options,
                           SemanticCacheKey(inflight["w1"].query,
                                            inflight["w1"].options),
                           now,
                           ThresholdOr(inflight["w1"].options, KvThreshold),
                           inflight["w1"].calls))
  /\ UNCHANGED <<store, typeIndex, catIndex, remote, pinecone, now>>

InitBackfill == InitWith({FALSE})

NextBackfill ==
  \/ Create(BackfillCreates, Budgets, {TRUE})
  \/ Update(BackfillUpdates, Answering, {TRUE})
  \/ Delete({"a"}, {TRUE})
  \/ SearchGather({Query1}, {NoOptions})
  \/ SearchBackfill
  \/ SearchFinish

SpecBackfill == InitBackfill /\ [][NextBackfill]_vars

\* the step is a step of the search
SearchStep == inflight'["w1"] # inflight["w1"]

\* C36: a step of a brute-force semantic search never changes the
\* content, type or version of a stored entity and never stores an entity
\* under an id that has no record, whatever update or delete ran since
\* the search fetched its candidates.
C36_SearchKeepsContentTypeVersion ==
  [][SearchStep
       => \A id \in DOMAIN store' :
            /\ id \in DOMAIN store
            /\ store'[id].content = store[id].content
            /\ store'[id].type = store[id].type
            /\ store'[id].metadata.version = store[id].metadata.version]_vars

----------------------------------------------------------------------------
(* SpecUpdates: two requests that each run one update of the entity a,     *)
(* split at the await of its first read: the read of the existing record,  *)
(* then the merge, the store, the re-indexing and the return.  create runs *)
(* while no update is in flight, delete at any moment.  No remote index    *)
(* is configured.  The call frame holds the id, the patch and the record   *)
(* read; a request ends with pc "returned" (success:true) or "failed".     *)

ConcurrentPatches ==
  {[NoPatch EXCEPT !.content = <<ContentB>>],
   [NoPatch EXCEPT !.type = <<"doc">>]}

CreateWhileQuiet(inputs, budgets) ==
  /\ \A w \in Workers : inflight[w].pc = "idle"
  /\ Create(inputs, budgets, {TRUE})

\* update up to the answer of retrieveBrainData
UpdateRead(ids, patches) ==
  \E w \in Workers, id \in ids, updates \in patches :
     /\ inflight[w].pc = "idle"
     /\ inflight' = [inflight EXCEPT ![w] =
                       [pc |-> IF RetrieveBrainData(World, id) = <<>>
                               THEN "failed" ELSE "read",
                        id |-> id, updates |-> updates,
                        existing |-> RetrieveBrainData(World, id)]]
     /\ UNCHANGED <<store, typeIndex, catIndex, cache, remote, pinecone, now,
                    last>>

\* the rest of update for the call of w, with the record it read
UpdateWritten(w, call, r) ==
  /\ store' = r.W.store
  /\ typeIndex' = r.W.typeIndex
  /\ catIndex' = r.W.catIndex
  /\ cache' = r.W.cache
  /\ remote' = r.W.remote
  /\ inflight' = [inflight EXCEPT ![w].pc = IF r.ok THEN "returned"
                                            ELSE "failed"]

UpdateWrite(budgets) ==
  \E w \in Workers, budget \in budgets :
     /\ inflight[w].pc = "read"
     /\ UpdateWritten(w, inflight[w],
                      UpdateFound(World, inflight[w].existing[1],
                                  inflight[w].id, inflight[w].updates,
                                  MergeUpdate(inflight[w].existing[1],
                                              inflight[w].id,
                                              inflight[w].updates),
                                  budget, TRUE, TRUE))
     /\ UNCHANGED <<pinecone, now, last>>

InitUpdates == InitWith({FALSE})

NextUpdates ==
  \/ CreateWhileQuiet({ValidEntity}, Answering)
  \/ Delete({"a"}, {TRUE})
  \/ UpdateRead({"a"}, ConcurrentPatches)
  \/ UpdateWrite(Budgets)

SpecUpdates == InitUpdates /\ [][NextUpdates]_vars

\* a delete has returned success and no create was issued since (last
\* records the create and delete calls only)
DeletedLast == last.op = "delete" /\ last.ok

\* C37: once delete(id) has returned success and no create(id) was issued
\* since, the record is absent and getById(id) reports not-found, also
\* when an update(id) had read the entity before the delete ran.
C37_DeletedStaysDeleted ==
  DeletedLast => /\ last.id \notin DOMAIN store
                 /\ ~GetByIdOp(World, last.id).ok

\* the stored entity has the fields the patch set
PatchPresent(entity, updates) ==
  /\ updates.content # <<>> => entity.content = updates.content[1]
  /\ updates.type # <<>> => entity.type = updates.type[1]

\* both updates of a returned success and nothing but them ran since the
\* create
BothUpdated ==
  /\ last.op = "create"
  /\ last.ok
  /\ \A w \in Workers : inflight[w].pc = "returned"

\* C38: when two updates of the same entity have both returned success,
\* in whatever order their reads and writes of the store ran, the stored
\* version is the initial version + 2 and the fields of both patches are
\* in the stored entity.
C38_BothUpdatesApplied ==
  BothUpdated
    => /\ store["a"].metadata.version = <<VersionOr1(last.arg[1]) + 2>>
       /\ \A w \in Workers : PatchPresent(store["a"], inflight[w].updates)

----------------------------------------------------------------------------
\* the create of w is between its first put and its return or failure
CreateSuspended(w) ==
  inflight[w].pc \in {"typeGet", "typePut", "catGet", "catPut", "done"}

\* C39: create writes the record before it appends the id to an index
\* list: at every suspend point of a create, and after a create that
\* failed, every id in a type or category index list has its record, and
\* the entity being created is stored; what may be missing is its index
\* entry and its embedding.
C39_RecordBeforeIndexEntry ==
  /\ \A T \in DOMAIN typeIndex :
       \A i \in 1..Len(typeIndex[T]) : typeIndex[T][i] \in DOMAIN store
  /\ \A K \in DOMAIN catIndex :
       \A i \in 1..Len(catIndex[K]) : catIndex[K][i] \in DOMAIN store
  /\ \A w \in Workers :
       (CreateSuspended(w) \/ inflight[w].pc = "failed")
         => inflight[w].id \in DOMAIN store

\* a create running alone is suspended after the put of the record and
\* the type index, before the category index is written: the entity is
\* stored and no category list holds its id
C39_Witness ==
  /\ inflight["w2"].pc = "idle"
  /\ inflight["w1"].pc = "catPut"
  /\ inflight["w1"].id \in DOMAIN store
  /\ store[inflight["w1"].id].metadata.indexed = <<FALSE>>
  /\ Includes(GetIndex(typeIndex, "note"), inflight["w1"].id)
  /\ catIndex = EmptyMap

----------------------------------------------------------------------------
(* The first two strategies of read and the result cache, under Spec.      *)

\* the sources of a result carry what the store holds now
SourcesCurrent(res) ==
  \A i \in 1..Len(res.sources) :
     /\ res.sources[i].id \in DOMAIN store
     /\ res.sources[i].content = store[res.sources[i].id].content

\* the semantic search of the query is cached and servable at the clock
CachedSemantic(query, options) ==
  /\ SemanticCacheKey(SearchQuery(query), options) \in DOMAIN cache
  /\ CacheGet(cache, SemanticCacheKey(SearchQuery(query), options), now).value # <<>>

\* C40: the direct lookup and the type filter of read neither consult nor
\* write the result cache: a read whose id names a stored entity is
\* answered by direct_lookup, a read whose type lists a stored entity is
\* answered by one of the two, and a read answered by either leaves every
\* cache entry as it was and returns the contents the store holds, also
\* when a semantic result of the same query is cached.
C40_DirectAndTypeBypassCache ==
  [][(CallStep /\ last'.op = "read") =>
       /\ DirectLookup(World, last'.arg[1]) # <<>>
            => last'.res[1].strategy = "direct_lookup"
       /\ Len(TypeLookup(World, last'.arg[1], NoOptions)) > 0
            => last'.res[1].strategy \in {"direct_lookup", "type_filter"}
       /\ last'.res[1].strategy \in {"direct_lookup", "type_filter"}
            => /\ cache' = cache
               /\ store' = store
               /\ SourcesCurrent(last'.res[1])]_vars

\* a read was answered by the direct lookup while the semantic search of
\* the same query was cached
C40_Witness ==
  /\ last.op = "read"
  /\ last.res[1].strategy = "direct_lookup"
  /\ CachedSemantic(last.arg[1], NoOptions)

====
